---------------------------- MODULE Spec2Model ----------------------------
(***************************************************************************)
(* Relay: peer-to-peer file transfer.  A model of the client-side engine:  *)
(* the direct-versus-relay race of run_send_with_signaling and             *)
(* run_receive_with_signaling, and the offer / accept / chunk / verify /   *)
(* complete protocol of run_send and run_receive over the transport the    *)
(* race produces.                                                          *)
(*                                                                         *)
(* Strings are sequences of one-character strings, so that the sanitizers  *)
(* act on characters as the code does.  Byte strings are sequences of      *)
(* small numbers.  AES-256-GCM is an ideal AEAD (a sealed box, opened only *)
(* with its key and nonce, and only if untouched) and SHA-256 an           *)
(* injective digest.                                                       *)
(***************************************************************************)
EXTENDS Integers, Sequences, FiniteSets, TLC

\* ------------------------------------------------------------------ bounds

\* Most files the sender offers in one session.
MaxFiles == 2
\* Plaintext bytes per chunk (CHUNK_SIZE of chunker.rs, scaled down).
ChunkSize == 2
\* Most messages a peer that is not run_send writes in one session.
MaxInject == 4

NoncePrefixes == {0, 1}
GoodKey == "k1"
BadKey == "k2"

\* --------------------------------------------------------------- utilities

Min(a, b) == IF a < b THEN a ELSE b
Max(a, b) == IF a > b THEN a ELSE b

Range(s) == {s[i] : i \in 1..Len(s)}

RECURSIVE SeqsUpTo(_, _)
SeqsUpTo(S, n) ==
  IF n = 0 THEN {<<>>}
  ELSE LET shorter == SeqsUpTo(S, n - 1)
       IN  shorter \cup {Append(s, x) : s \in {t \in shorter : Len(t) = n - 1}, x \in S}

\* The decimal digits as characters, and format!("{}", n) for an unsigned
\* integer.
DigitChars == <<"0", "1", "2", "3", "4", "5", "6", "7", "8", "9">>

RECURSIVE FormatU8(_)
FormatU8(n) ==
  IF n < 10 THEN <<DigitChars[n + 1]>>
  ELSE Append(FormatU8(n \div 10), DigitChars[(n % 10) + 1])

\* The value of a string of decimal digits.
RECURSIVE DecimalValue(_)
DecimalValue(s) ==
  IF s = <<>> THEN 0
  ELSE 10 * DecimalValue(SubSeq(s, 1, Len(s) - 1))
         + (CHOOSE d \in 0..9 : DigitChars[d + 1] = s[Len(s)])

\* ------------------------------------------------------------ path safety

\* str::replace(['/', '\\'], "_")
ReplaceSeparators(s) ==
  [i \in 1..Len(s) |-> IF s[i] \in {"/", "\\"} THEN "_" ELSE s[i]]

\* str::replace("..", "_"): non-overlapping matches, left to right.
RECURSIVE ReplaceDotDot(_)
ReplaceDotDot(s) ==
  IF Len(s) >= 2 /\ s[1] = "." /\ s[2] = "."
    THEN <<"_">> \o ReplaceDotDot(SubSeq(s, 3, Len(s)))
  ELSE IF s = <<>> THEN <<>>
  ELSE <<s[1]>> \o ReplaceDotDot(Tail(s))

\* str::replace('\0', "")
RECURSIVE DropNul(_)
DropNul(s) ==
  IF s = <<>> THEN <<>>
  ELSE (IF Head(s) = "NUL" THEN <<>> ELSE <<Head(s)>>) \o DropNul(Tail(s))

unnamed_file == <<"unnamed_file">>

sanitize_filename(name) ==
  LET clean == DropNul(ReplaceDotDot(ReplaceSeparators(name)))
  IN  IF clean = <<>> THEN unnamed_file ELSE clean

\* The pieces of s between '/' characters (Unix Path::components splits on
\* '/' only; empty pieces are dropped by the caller).
RECURSIVE SplitSlash(_, _)
SplitSlash(s, cur) ==
  IF s = <<>> THEN <<cur>>
  ELSE IF Head(s) = "/" THEN <<cur>> \o SplitSlash(Tail(s), <<>>)
  ELSE SplitSlash(Tail(s), Append(cur, Head(s)))

\* Path::components of a relative Unix path: empty pieces vanish, the rest
\* are CurDir ("."), ParentDir ("..") or Normal.
Components(s) == SelectSeq(SplitSlash(s, <<>>), LAMBDA c : c # <<>>)

\* The loop of sanitize_path over the components: the cleaned Normal
\* components, in order (CurDir skipped, empty cleaned components skipped).
RECURSIVE SafeComponents(_)
SafeComponents(cs) ==
  IF cs = <<>> THEN <<>>
  ELSE LET c == Head(cs)
           clean == DropNul(ReplaceSeparators(c))
       IN  (IF c = <<".">> \/ clean = <<>> THEN <<>> ELSE <<clean>>)
           \o SafeComponents(Tail(cs))

\* sanitize_path without the ParentDir arm: ".." is kept like a Normal component.
sanitize_path_allows_parent(rel_path) ==
  LET safe == SafeComponents(Components(rel_path))
  IN  IF rel_path # <<>> /\ rel_path[1] \in {"/", "\\"}
        THEN [ok |-> FALSE, path |-> <<>>]
      ELSE IF "NUL" \in Range(rel_path)
        THEN [ok |-> FALSE, path |-> <<>>]
      ELSE IF safe = <<>>
        THEN [ok |-> FALSE, path |-> <<>>]
      ELSE [ok |-> TRUE, path |-> safe]

\* sanitize_path: [ok, path]; path is the sequence of components of the result.
sanitize_path(rel_path) ==
  LET cs == Components(rel_path)
      safe == SafeComponents(cs)
  IN  IF rel_path # <<>> /\ rel_path[1] \in {"/", "\\"}
        THEN [ok |-> FALSE, path |-> <<>>]
      ELSE IF "NUL" \in Range(rel_path)
        THEN [ok |-> FALSE, path |-> <<>>]
      ELSE IF <<".", ".">> \in Range(cs)
        THEN [ok |-> FALSE, path |-> <<>>]
      ELSE IF safe = <<>>
        THEN [ok |-> FALSE, path |-> <<>>]
      ELSE [ok |-> TRUE, path |-> safe]

\* The target path of one entry of the offer, relative to save_dir:
\* sanitize_path(relative_path) for a folder entry, sanitize_filename(name)
\* for a flat file.
TargetPath(info) ==
  IF info.has_rel THEN sanitize_path(info.rel)
  ELSE [ok |-> TRUE, path |-> <<sanitize_filename(info.name)>>]



\* ----------------------------------------------------------------- crypto

\* Bytes of the AES-GCM authentication tag appended to every ciphertext.
TagLen == 16

\* ChunkEncryptor::make_nonce: prefix || counter.
make_nonce(enc) == <<enc.nonce_prefix, enc.counter>>

\* ChunkEncryptor::encrypt_chunk: the sealed box and its nonce; the counter
\* is incremented by the caller's use of NextEncryptor.
encrypt_chunk(enc, key, plaintext) ==
  [data  |-> [key |-> key, nonce |-> make_nonce(enc), pt |-> plaintext,
              intact |-> TRUE],
   nonce |-> make_nonce(enc)]

NextEncryptor(enc) == [enc EXCEPT !.counter = @ + 1]

\* ChunkDecryptor::decrypt_chunk: the tag authenticates key, nonce and
\* ciphertext; any mismatch is Crypto("AES-GCM decryption failed").
decrypt_chunk(key, data, nonce) ==
  IF data.intact /\ data.key = key /\ data.nonce = nonce
    THEN [ok |-> TRUE, pt |-> data.pt]
    ELSE [ok |-> FALSE, pt |-> <<>>]

\* Vec::len of a ciphertext: plaintext plus tag.
DataLen(data) == Len(data.pt) + TagLen

\* StreamingChecksum: the state is what was fed so far; finalize digests it.
ChecksumNew == <<>>
ChecksumUpdate(h, bytes) == h \o bytes
ChecksumFinalize(h) == [sha256_of |-> h]

\* --------------------------------------------------------------- messages

FileOffer(infos) == [type |-> "file_offer", files |-> infos]
FileAccept == [type |-> "file_accept"]
FileDecline_as_accept == [type |-> "file_accept"]
FileDecline == [type |-> "file_decline"]
FileChunk(i, ci, data, nonce) ==
  [type |-> "file_chunk", file_index |-> i, chunk_index |-> ci,
   data |-> data, nonce |-> nonce]
FileComplete(i, sha) == [type |-> "file_complete", file_index |-> i, sha256 |-> sha]
FileVerified(i) == [type |-> "file_verified", file_index |-> i]
TransferComplete == [type |-> "transfer_complete"]
Cancel(reason) == [type |-> "cancel", reason |-> reason]
Ping == [type |-> "ping"]

\* ------------------------------------------------------- the sender's files

\* The regular files the sender can be asked to send, as expand_paths lists
\* them: two flat files with the same file name (from different
\* directories), an empty flat file and a folder entry d/b.
SourceFiles ==
  { [name |-> <<"a">>, has_rel |-> FALSE, rel |-> <<>>, content |-> <<1, 2, 1>>],
    [name |-> <<"a">>, has_rel |-> FALSE, rel |-> <<>>, content |-> <<2>>],
    [name |-> <<"b">>, has_rel |-> FALSE, rel |-> <<>>, content |-> <<>>],
    [name |-> <<"b">>, has_rel |-> TRUE, rel |-> <<"d", "/", "b">>, content |-> <<1>>] }

\* expand_paths: the FileInfo of one file.
InfoOf(f) ==
  [name |-> f.name, size |-> Len(f.content), has_rel |-> f.has_rel, rel |-> f.rel]

InfosOf(fs) == [i \in 1..Len(fs) |-> InfoOf(fs[i])]

\* total_bytes: the sum of the sizes an offer announces.
RECURSIVE TotalBytes(_)
TotalBytes(infos) ==
  IF infos = <<>> THEN 0 ELSE Head(infos).size + TotalBytes(Tail(infos))

\* The lists of files one session sends: any files, each at most once.
SenderInputs ==
  {fs \in SeqsUpTo(SourceFiles, MaxFiles) :
     \A i, j \in 1..Len(fs) : i # j => fs[i] # fs[j]}

\* Every target path the receiver can resolve for these files.
DiskPaths == {TargetPath(InfoOf(f)).path : f \in SourceFiles}

\* ------------------------------------------------------------------ state

VARIABLES
  files,   \* the sender's file list after expand_paths, with each file's bytes
  snd,     \* the send pipeline: position, transport, per-file chunker state
  rcv,     \* the receive pipeline: position, transport, reassemblers
  net,     \* the QUIC connection, its stream, and the two signaling websockets
           \* (sent: the kinds of frame each endpoint wrote to its websocket)
  disk,    \* the receiver's save directory: target path -> file
  adv,     \* peer messages sent so far by a peer that is not run_send
  call,    \* one call of a function on its own: name, argument, result
  sessions, \* the SessionStore of one application: session id -> session
  ui       \* one session's way to the UI: progress channel, events observed

vars == <<files, snd, rcv, net, disk, adv, call, sessions, ui>>

\* No session's event channel is being followed.
NoUi == [pc |-> "none", emitted |-> <<>>, chan |-> <<>>, seen |-> <<>>]

\* create_stores: the empty SessionStore.
NoSessions == <<>>

\* No function is being called on its own.
NoCall == [fn |-> "none", arg |-> <<>>, done |-> TRUE, ret |-> <<>>]

NoFile == [exists |-> FALSE, data |-> <<>>]

NoMessage == [type |-> "none"]

Other(side) == IF side = "sender" THEN "receiver" ELSE "sender"

\* ProgressEvent variants.
StateChanged(state) == [type |-> "StateChanged", state |-> state]
ConnectionTypeChanged(t) == [type |-> "ConnectionTypeChanged", connection_type |-> t]
FileOfferEvent(infos) == [type |-> "FileOffer", files |-> infos]
TransferProgress(done, total) ==
  [type |-> "TransferProgress", bytes_transferred |-> done, bytes_total |-> total]
FileCompleted(name) == [type |-> "FileCompleted", name |-> name]
ErrorEvent(message) == [type |-> "Error", message |-> message]
TransferCompleteEvent(total, count) ==
  [type |-> "TransferComplete", total_bytes |-> total, file_count |-> count]

\* Signaling websocket frames: JSON text, or a binary peer frame.
WsText(t) == [frame |-> "text", type |-> t]
WsBinary(m) == [frame |-> "binary", msg |-> m]

\* RelayStream::recv_message skips text frames until a binary frame comes.
RECURSIVE SkipText(_)
SkipText(q) ==
  IF q # <<>> /\ Head(q).frame = "text" THEN SkipText(Tail(q)) ELSE q

\* Transport::send_peer_message: a frame on the QUIC stream (which the
\* sender's first write opens for the dialer's accept_bi), or a binary
\* frame on the websocket.
Transmit(n, side, kind, m) ==
  IF kind = "Direct"
    THEN IF side = "sender"
           THEN [n EXCEPT !.s2r = Append(@, m), !.bi_open = TRUE]
           ELSE [n EXCEPT !.r2s = Append(@, m)]
    ELSE [n EXCEPT !.up[side] = Append(@, WsBinary(m)),
                   !.sent[side] = Append(@, "binary")]

\* What Transport::recv_peer_message can read next on this side.
Inbox(n, side, kind) ==
  IF kind = "Direct"
    THEN (IF side = "sender" THEN n.r2s ELSE n.s2r)
    ELSE SkipText(n.down[side])

HasMessage(n, side, kind) == Inbox(n, side, kind) # <<>>

NextMessage(n, side, kind) ==
  IF kind = "Direct" THEN Head(Inbox(n, side, kind))
  ELSE Head(Inbox(n, side, kind)).msg

\* A frame for this side is still on its way through the relay.
InFlight(n, side, kind) ==
  /\ kind = "Relayed"
  /\ \E k \in 1..Len(n.up[Other(side)]) : n.up[Other(side)][k].frame = "binary"

\* The transport after recv_peer_message returned NextMessage.
Consume(n, side, kind) ==
  IF kind = "Direct"
    THEN (IF side = "sender" THEN [n EXCEPT !.r2s = Tail(@)]
          ELSE [n EXCEPT !.s2r = Tail(@)])
    ELSE [n EXCEPT !.down[side] = Tail(SkipText(@))]

Init ==
  /\ files \in SenderInputs
  /\ snd = [pc |-> "race", result |-> "none", transport |-> "none",
            key |-> GoodKey, cancel |-> FALSE,
            idx |-> 0, off |-> 0,
            enc |-> [nonce_prefix |-> 0, counter |-> 0],
            checksum |-> ChecksumNew, chunk_index |-> 0,
            bytes |-> 0, events |-> <<>>, log |-> <<>>, seen |-> <<>>]
  /\ rcv = [pc |-> "race", result |-> "none", transport |-> "none",
            key |-> GoodKey, cancel |-> FALSE, accept |-> "pending",
            accept_tx |-> TRUE, accept_result |-> "none",
            files |-> <<>>, reassemblers |-> <<>>,
            bytes |-> 0, events |-> <<>>, log |-> <<>>,
            seen |-> <<>>, cancelled_in |-> "none", exit |-> "none"]
  /\ net = [quic |-> "idle", bi_open |-> FALSE, fin |-> FALSE,
            s2r |-> <<>>, r2s |-> <<>>,
            up |-> [x \in {"sender", "receiver"} |-> <<>>],
            down |-> [x \in {"sender", "receiver"} |-> <<>>],
            sent |-> [x \in {"sender", "receiver"} |-> <<>>]]
  /\ disk = [p \in DiskPaths |-> NoFile]
  /\ adv = 0
  /\ call = NoCall
  /\ sessions = NoSessions
  /\ ui = NoUi

\* The last message a pipeline read from its peer.
LastSeen(p) == IF p.seen = <<>> THEN NoMessage ELSE p.seen[Len(p.seen)]

\* A pipeline returns: its position becomes "done" and its result is kept.
\* The task spawned by start_send / start_receive matches on the
\* pipeline's result: Err(e) is reported to the UI as one Error event, Ok(())
\* as nothing more; a panic unwinds the task before the match.
Reported(events, result) ==
  IF result \in {"Ok", "Panic"} THEN events
  ELSE Append(events, ErrorEvent(result))

SenderReturns(s, result) ==
  [s EXCEPT !.pc = "done", !.result = result,
            !.events = Reported(@, result)]
ReceiverReturns(r, result, where) ==
  [r EXCEPT !.pc = "done", !.result = result, !.exit = where,
            !.events = Reported(@, result)]

\* ------------------------------------------- QUIC handshake (quinn, network)

\* The dialer's handshake completes: quic.connect(addr) is ready with Ok.
\* The listener takes part in the handshake while it is in accept_any.
QuicClientUp ==
  /\ net.quic = "connecting"
  /\ snd.pc = "race"
  /\ net' = [net EXCEPT !.quic = "client_up"]
  /\ UNCHANGED <<files, snd, rcv, disk, adv, call, sessions, ui>>

\* The listener's handshake completes: accept_any is ready with Ok.
QuicServerUp ==
  /\ net.quic = "client_up"
  /\ snd.pc = "race"
  /\ net' = [net EXCEPT !.quic = "both_up"]
  /\ UNCHANGED <<files, snd, rcv, disk, adv, call, sessions, ui>>

\* The dial fails: quic.connect(addr) is ready with Err.
QuicDialFails ==
  /\ net.quic = "connecting"
  /\ net' = [net EXCEPT !.quic = "failed"]
  /\ UNCHANGED <<files, snd, rcv, disk, adv, call, sessions, ui>>

\* The listener's side of the handshake fails after the dialer's completed
\* (the dialer's last flight is lost): accept_any is ready with Err.
QuicAcceptFails ==
  /\ net.quic = "client_up"
  /\ snd.pc = "race"
  /\ net' = [net EXCEPT !.quic = "half_failed"]
  /\ UNCHANGED <<files, snd, rcv, disk, adv, call, sessions, ui>>

\* ------------------------------------------------------ rendezvous server

\* request_relay from one endpoint is fanned out as relay_request to the other.
ServerRelayRequest(x) ==
  /\ net.up[x] # <<>>
  /\ Head(net.up[x]) = WsText("request_relay")
  /\ net' = [net EXCEPT !.up[x] = Tail(@),
                        !.down[Other(x)] = Append(@, WsText("relay_request"))]
  /\ UNCHANGED <<files, snd, rcv, disk, adv, call, sessions, ui>>

\* disconnect from one endpoint closes that endpoint's socket.
ServerDisconnect(x) ==
  /\ net.up[x] # <<>>
  /\ Head(net.up[x]) = WsText("disconnect")
  /\ net' = [net EXCEPT !.up[x] = Tail(@)]
  /\ UNCHANGED <<files, snd, rcv, disk, adv, call, sessions, ui>>

\* Relay mode: a binary frame from one endpoint is passed to the other.
ServerForward(x) ==
  /\ net.up[x] # <<>>
  /\ Head(net.up[x]).frame = "binary"
  /\ net' = [net EXCEPT !.up[x] = Tail(@),
                        !.down[Other(x)] = Append(@, Head(net.up[x]))]
  /\ UNCHANGED <<files, snd, rcv, disk, adv, call, sessions, ui>>

\* ------------------------------------------------ signaling client calls

\* SignalingClient::disconnect: a last JSON message, then the socket closes.
SignalingDisconnect(n, side) ==
  [n EXCEPT !.up[side] = Append(@, WsText("disconnect")),
            !.sent[side] = Append(@, "disconnect")]

\* SignalingClient::request_relay: JSON request_relay; the socket is then
\* handed to RelayStream.
SignalingRequestRelay(n, side) ==
  [n EXCEPT !.up[side] = Append(@, WsText("request_relay")),
            !.sent[side] = Append(@, "request_relay")]

\* ------------------------------------------------------- the sender's race

\* The relay fallback announcing a direct connection.
SenderFallbackToRelay_says_direct(n) ==
  /\ net' = SignalingRequestRelay(n, "sender")
  /\ snd' = [snd EXCEPT !.transport = "Relayed", !.pc = "send_offer",
                        !.events = Append(@, ConnectionTypeChanged("direct"))]
  /\ UNCHANGED <<files, rcv, disk, adv, call, sessions, ui>>

\* RaceOutcome::FallbackToRelay, then step 7: request_relay, the event, the
\* Relayed transport; run_send starts.
SenderFallbackToRelay(n) ==
  /\ net' = SignalingRequestRelay(n, "sender")
  /\ snd' = [snd EXCEPT !.transport = "Relayed", !.pc = "send_offer",
                        !.events = Append(@, ConnectionTypeChanged("relay"))]
  /\ UNCHANGED <<files, rcv, disk, adv, call, sessions, ui>>

\* accept_any won the select with a connection: disconnect signaling, the
\* event, open_bi, the Direct transport; run_send starts.
SenderQuicAccepted ==
  /\ snd.pc = "race"
  /\ net.quic = "both_up"
  /\ net' = SignalingDisconnect(net, "sender")
  /\ snd' = [snd EXCEPT !.transport = "Direct", !.pc = "send_offer",
                        !.events = Append(@, ConnectionTypeChanged("direct"))]
  /\ UNCHANGED <<files, rcv, disk, adv, call, sessions, ui>>

\* accept_any won the select with an error.
SenderQuicAcceptFailed ==
  /\ snd.pc = "race"
  /\ net.quic = "half_failed"
  /\ SenderFallbackToRelay(net)

\* The 10-second timeout fired before accept_any was ready.
SenderQuicTimeout ==
  /\ snd.pc = "race"
  /\ net.quic \notin {"both_up", "half_failed"}
  /\ SenderFallbackToRelay(net)

\* check_for_relay_request won the select: a relay_request, or any other
\* signaling message, gives the relay.
SenderRelayRequested ==
  /\ snd.pc = "race"
  /\ net.down["sender"] # <<>>
  /\ SenderFallbackToRelay([net EXCEPT !.down["sender"] = Tail(@)])

\* check_for_relay_request won the select with something that is not a
\* relay request: another message (Ok(false)), a text frame that does not
\* parse (Err), or the end of the socket (Err). All give FallbackToRelay;
\* on a socket that has ended request_relay cannot send, and its error is
\* returned by the ? of step 7.
SignalingSurprises == {"other_message", "malformed", "closed"}

SenderSignalingSurprise(what) ==
  /\ snd.pc = "race"
  /\ IF what = "closed"
       THEN /\ snd' = SenderReturns(snd, "WebSocket")
            /\ UNCHANGED <<files, rcv, net, disk, adv, call, sessions, ui>>
       ELSE SenderFallbackToRelay(net)

\* The cancel token won the select.
SenderRaceCancelled ==
  /\ snd.pc = "race"
  /\ snd.cancel
  /\ net' = SignalingDisconnect(net, "sender")
  /\ snd' = SenderReturns(snd, "Cancelled")
  /\ UNCHANGED <<files, rcv, disk, adv, call, sessions, ui>>

\* ----------------------------------------------------- the receiver's race

\* Addresses the rendezvous server can report for the sender in peer_joined:
\* nothing, a dotted IPv4 address, or an IPv6 address as IpAddr::to_string
\* and the server's peer address give it (no brackets).
Chars(ip) ==
  CASE ip = "" -> <<>>
    [] ip = "10.0.0.2" -> <<"1", "0", ".", "0", ".", "0", ".", "2">>
    [] ip = "198.51.100.7" ->
         <<"1", "9", "8", ".", "5", "1", ".", "1", "0", "0", ".", "7">>
    [] ip = "fe80::1" -> <<"f", "e", "8", "0", ":", ":", "1">>
    [] ip = "2001:db8::1" ->
         <<"2", "0", "0", "1", ":", "d", "b", "8", ":", ":", "1">>

PeerInfos ==
  [public_ip : {Chars(""), Chars("198.51.100.7"), Chars("2001:db8::1")},
   public_port : {0, 4433},
   local_ip : {Chars(""), Chars("10.0.0.2"), Chars("fe80::1")},
   local_port : {0, 4433}]

\* str::split(c).
RECURSIVE SplitOn(_, _, _)
SplitOn(s, c, cur) ==
  IF s = <<>> THEN <<cur>>
  ELSE IF Head(s) = c THEN <<cur>> \o SplitOn(Tail(s), c, <<>>)
  ELSE SplitOn(Tail(s), c, Append(cur, Head(s)))

\* A decimal number of at most `digits` digits and at most `most`.
IsDecimal(s, digits, most) ==
  /\ s # <<>> /\ Len(s) <= digits
  /\ Range(s) \subseteq Range(DigitChars)
  /\ DecimalValue(s) <= most

\* Ipv4Addr::from_str: four decimal octets separated by dots.
IsIpv4(host) ==
  LET parts == SplitOn(host, ".", <<>>)
  IN  Len(parts) = 4 /\ \A i \in 1..4 : IsDecimal(parts[i], 3, 255)

\* Ipv6Addr::from_str on the addresses used here: groups of hex digits
\* separated by colons.
HexChars == Range(DigitChars) \cup {"a", "b", "c", "d", "e", "f"}

IsIpv6(host) ==
  /\ ":" \in Range(host)
  /\ Range(host) \subseteq HexChars \cup {":"}

\* SocketAddr::from_str: "a.b.c.d:port" or "[v6]:port".
NoSocketAddr == [ok |-> FALSE, ip |-> <<>>, port |-> 0]

ParseSocketAddr(s) ==
  LET colons == {k \in 1..Len(s) : s[k] = ":"}
  IN  IF colons = {} THEN NoSocketAddr
      ELSE LET k == CHOOSE c \in colons : \A d \in colons : d <= c
               host == SubSeq(s, 1, k - 1)
               port == SubSeq(s, k + 1, Len(s))
           IN  IF ~IsDecimal(port, 5, 65535) THEN NoSocketAddr
               ELSE IF IsIpv4(host)
                 THEN [ok |-> TRUE, ip |-> host, port |-> DecimalValue(port)]
               ELSE IF /\ Len(host) >= 2
                       /\ Head(host) = "[" /\ host[Len(host)] = "]"
                       /\ IsIpv6(SubSeq(host, 2, Len(host) - 1))
                 THEN [ok |-> TRUE, ip |-> SubSeq(host, 2, Len(host) - 1),
                       port |-> DecimalValue(port)]
               ELSE NoSocketAddr

\* format!("{}:{}", ip, port).parse().
ParseIpPort(ip, port) == ParseSocketAddr(ip \o <<":">> \o FormatU8(port))

\* resolve_peer_addr: the local address if it is there and parses, else the
\* public one if it is there and parses, else no address.
resolve_peer_addr(peer_info) ==
  IF /\ peer_info.local_ip # <<>> /\ peer_info.local_port > 0
     /\ ParseIpPort(peer_info.local_ip, peer_info.local_port).ok
    THEN ParseIpPort(peer_info.local_ip, peer_info.local_port)
  ELSE IF /\ peer_info.public_ip # <<>> /\ peer_info.public_port > 0
          /\ ParseIpPort(peer_info.public_ip, peer_info.public_port).ok
    THEN ParseIpPort(peer_info.public_ip, peer_info.public_port)
  ELSE NoSocketAddr

\* activate_relay that also sends the JSON disconnect after request_relay.
ActivateRelay_disconnects ==
  /\ net' = SignalingDisconnect(SignalingRequestRelay(net, "receiver"), "receiver")
  /\ rcv' = [rcv EXCEPT !.transport = "Relayed", !.pc = "wait_offer",
                        !.events = @ \o <<ConnectionTypeChanged("relay"),
                                          StateChanged("transferring")>>]
  /\ UNCHANGED <<files, snd, disk, adv, call, sessions, ui>>

\* activate_relay, then the entry of run_receive (its first event).
ActivateRelay ==
  /\ net' = SignalingRequestRelay(net, "receiver")
  /\ rcv' = [rcv EXCEPT !.transport = "Relayed", !.pc = "wait_offer",
                        !.events = @ \o <<ConnectionTypeChanged("relay"),
                                          StateChanged("transferring")>>]
  /\ UNCHANGED <<files, snd, disk, adv, call, sessions, ui>>

\* Step 6 with a usable address: the dial starts.
ReceiverDial(peer_info) ==
  /\ rcv.pc = "race"
  /\ resolve_peer_addr(peer_info).ok
  /\ rcv' = [rcv EXCEPT !.pc = "dialing"]
  /\ net' = [net EXCEPT !.quic = "connecting"]
  /\ UNCHANGED <<files, snd, disk, adv, call, sessions, ui>>

\* Step 6 without a usable address: straight to the relay.
ReceiverNoAddress(peer_info) ==
  /\ rcv.pc = "race"
  /\ ~resolve_peer_addr(peer_info).ok
  /\ ActivateRelay

\* The dial returned a connection in time: disconnect signaling, the event,
\* then accept_bi.
ReceiverQuicConnected ==
  /\ rcv.pc = "dialing"
  /\ net.quic \in {"client_up", "both_up", "half_failed"}
  /\ net' = SignalingDisconnect(net, "receiver")
  /\ rcv' = [rcv EXCEPT !.transport = "Direct", !.pc = "accept_bi",
                        !.events = Append(@, ConnectionTypeChanged("direct"))]
  /\ UNCHANGED <<files, snd, disk, adv, call, sessions, ui>>

\* The dial returned an error.
ReceiverQuicFailed ==
  /\ rcv.pc = "dialing"
  /\ net.quic = "failed"
  /\ ActivateRelay

\* The 5-second timeout fired before the dial was ready; the attempt is dropped.
ReceiverQuicTimeout ==
  /\ rcv.pc = "dialing"
  /\ net.quic = "connecting"
  /\ net' = [SignalingRequestRelay(net, "receiver") EXCEPT !.quic = "failed"]
  /\ rcv' = [rcv EXCEPT !.transport = "Relayed", !.pc = "wait_offer",
                        !.events = @ \o <<ConnectionTypeChanged("relay"),
                                          StateChanged("transferring")>>]
  /\ UNCHANGED <<files, snd, disk, adv, call, sessions, ui>>

\* accept_bi returns the stream the sender opened; run_receive starts.
ReceiverAcceptBi ==
  /\ rcv.pc = "accept_bi"
  /\ net.bi_open
  /\ rcv' = [rcv EXCEPT !.pc = "wait_offer",
                        !.events = Append(@, StateChanged("transferring"))]
  /\ UNCHANGED <<files, snd, net, disk, adv, call, sessions, ui>>

\* accept_bi failing only once the sender has returned.
ReceiverAcceptBiFailed_after_return ==
  /\ rcv.pc = "accept_bi"
  /\ ~net.bi_open
  /\ snd.pc = "done"
  /\ rcv' = ReceiverReturns(rcv, "Network", "accept_bi")
  /\ UNCHANGED <<files, snd, net, disk, adv, call, sessions, ui>>

\* accept_bi fails: the connection was lost before a stream was opened.
ReceiverAcceptBiFailed ==
  /\ rcv.pc = "accept_bi"
  /\ ~net.bi_open
  /\ snd.pc = "done" \/ snd.transport = "Relayed" \/ net.quic = "half_failed"
  /\ rcv' = ReceiverReturns(rcv, "Network", "accept_bi")
  /\ UNCHANGED <<files, snd, net, disk, adv, call, sessions, ui>>

\* ---------------------------------------------------------------- run_send

\* Transport::finish_send: the send side of the stream is finished, or the
\* websocket is closed.
FinishSend(n) == [n EXCEPT !.fin = TRUE]

\* The per-file loop starts file i with a fresh ChunkEncryptor (random nonce
\* prefix) and a fresh FileChunker.
BeginFile(s, i, prefix) ==
  [s EXCEPT !.pc = "chunks", !.idx = i, !.off = 0,
            !.enc = [nonce_prefix |-> prefix, counter |-> 0],
            !.checksum = ChecksumNew, !.chunk_index = 0]

\* After the per-file loop: transfer_complete, finish, the event, Ok.
SenderFinishes(s, n) ==
  /\ net' = FinishSend(Transmit(n, "sender", s.transport, TransferComplete))
  /\ snd' = SenderReturns(
       [s EXCEPT !.log = Append(@, TransferComplete),
                 !.events = Append(@, TransferCompleteEvent(
                    TotalBytes(InfosOf(files)), Len(files)))], "Ok")

\* The entry of run_send: the transferring event and the file offer.
SenderSendOffer ==
  /\ snd.pc = "send_offer"
  /\ net' = Transmit(net, "sender", snd.transport, FileOffer(InfosOf(files)))
  /\ snd' = [snd EXCEPT !.pc = "wait_accept",
                        !.events = Append(@, StateChanged("transferring")),
                        !.log = Append(@, FileOffer(InfosOf(files)))]
  /\ UNCHANGED <<files, rcv, disk, adv, call, sessions, ui>>

\* The answer to the offer taken as file_accept unless it is file_decline.
SenderReadsAnswer_accepts_others ==
  /\ snd.pc = "wait_accept"
  /\ HasMessage(net, "sender", snd.transport)
  /\ LET m == NextMessage(net, "sender", snd.transport)
         n == Consume(net, "sender", snd.transport)
         s == [snd EXCEPT !.seen = Append(@, m)]
     IN IF m.type # "file_decline"
          THEN IF Len(files) = 0
                 THEN SenderFinishes(s, n)
                 ELSE /\ \E prefix \in NoncePrefixes :
                           snd' = BeginFile(s, 1, prefix)
                      /\ net' = n
        ELSE snd' = SenderReturns(s, "PeerRejected") /\ net' = n
  /\ UNCHANGED <<files, rcv, disk, adv, call, sessions, ui>>

\* The answer to the offer is read (this read is not raced against the
\* cancel token): file_accept starts the per-file loop, file_decline is
\* PeerRejected, anything else a Transfer error.
SenderReadsAnswer ==
  /\ snd.pc = "wait_accept"
  /\ HasMessage(net, "sender", snd.transport)
  /\ LET m == NextMessage(net, "sender", snd.transport)
         n == Consume(net, "sender", snd.transport)
         s == [snd EXCEPT !.seen = Append(@, m)]
     IN IF m.type = "file_accept"
          THEN IF Len(files) = 0
                 THEN SenderFinishes(s, n)
                 ELSE /\ \E prefix \in NoncePrefixes :
                           snd' = BeginFile(s, 1, prefix)
                      /\ net' = n
        ELSE IF m.type = "file_decline"
          THEN snd' = SenderReturns(s, "PeerRejected") /\ net' = n
        ELSE snd' = SenderReturns(s, "Transfer") /\ net' = n
  /\ UNCHANGED <<files, rcv, disk, adv, call, sessions, ui>>

\* What is left to read of the current file.
Remaining(s) == Len(files[s.idx].content) - s.off

\* FileChunker::next_chunk returned Some: bytes_read bytes were read, hashed
\* and encrypted, the counter and the chunk index advanced.
AfterNextChunk(s, bytes_read) ==
  [s EXCEPT !.off = @ + bytes_read,
            !.checksum = ChecksumUpdate(@,
                SubSeq(files[s.idx].content, s.off + 1, s.off + bytes_read)),
            !.enc = NextEncryptor(@),
            !.chunk_index = @ + 1]

\* One turn of the chunk loop without cancellation: the chunk is read (a read
\* may return fewer bytes than the buffer holds), sent, and counted with the
\* length of its ciphertext.
SenderSendsChunk ==
  /\ snd.pc = "chunks"
  /\ ~snd.cancel
  /\ \E bytes_read \in 1..Min(ChunkSize, Remaining(snd)) :
       LET plaintext == SubSeq(files[snd.idx].content, snd.off + 1,
                               snd.off + bytes_read)
           sealed == encrypt_chunk(snd.enc, snd.key, plaintext)
           m == FileChunk(snd.idx - 1, snd.chunk_index, sealed.data, sealed.nonce)
           total == snd.bytes + DataLen(sealed.data)
       IN /\ net' = Transmit(net, "sender", snd.transport, m)
          /\ snd' = [AfterNextChunk(snd, bytes_read) EXCEPT
                       !.bytes = total,
                       !.log = Append(@, m),
                       !.events = Append(@, TransferProgress(
                                    total, TotalBytes(InfosOf(files))))]
  /\ UNCHANGED <<files, rcv, disk, adv, call, sessions, ui>>

\* The cancelled turn of the chunk loop returning without writing cancel.
SenderChunkCancelled_silent ==
  /\ snd.pc = "chunks"
  /\ snd.cancel
  /\ Remaining(snd) > 0
  /\ snd' = SenderReturns(snd, "Cancelled")
  /\ UNCHANGED <<files, rcv, net, disk, adv, call, sessions, ui>>

\* One turn of the chunk loop with the token cancelled: the chunk that was
\* read is dropped, cancel is sent, Cancelled.
SenderChunkCancelled ==
  /\ snd.pc = "chunks"
  /\ snd.cancel
  /\ Remaining(snd) > 0
  /\ net' = Transmit(net, "sender", snd.transport, Cancel("cancelled by sender"))
  /\ snd' = SenderReturns(
       [snd EXCEPT !.log = Append(@, Cancel("cancelled by sender"))], "Cancelled")
  /\ UNCHANGED <<files, rcv, disk, adv, call, sessions, ui>>

\* next_chunk returned None: file_complete with the digest of what was read.
SenderSendsComplete ==
  /\ snd.pc = "chunks"
  /\ Remaining(snd) = 0
  /\ LET m == FileComplete(snd.idx - 1, ChecksumFinalize(snd.checksum))
     IN /\ net' = Transmit(net, "sender", snd.transport, m)
        /\ snd' = [snd EXCEPT !.pc = "wait_verified", !.log = Append(@, m)]
  /\ UNCHANGED <<files, rcv, disk, adv, call, sessions, ui>>

\* The answer to file_complete is read (not raced against the cancel token):
\* file_verified of any index completes the file, cancel and anything else
\* are Transfer errors.
SenderReadsVerified ==
  /\ snd.pc = "wait_verified"
  /\ HasMessage(net, "sender", snd.transport)
  /\ LET m == NextMessage(net, "sender", snd.transport)
         n == Consume(net, "sender", snd.transport)
         r == [snd EXCEPT !.seen = Append(@, m)]
         s == [r EXCEPT !.events = Append(@, FileCompleted(files[snd.idx].name))]
     IN IF m.type = "file_verified"
          THEN IF snd.idx = Len(files)
                 THEN SenderFinishes(s, n)
                 ELSE /\ \E prefix \in NoncePrefixes :
                           snd' = BeginFile(s, snd.idx + 1, prefix)
                      /\ net' = n
        ELSE snd' = SenderReturns(r, "Transfer") /\ net' = n
  /\ UNCHANGED <<files, rcv, disk, adv, call, sessions, ui>>

\* A read or a write of run_send fails because the receiver has returned
\* and its end of the transport is gone. In the chunk loop the token is
\* checked before the write: with the token set and a chunk read, the write
\* that can fail is the one of cancel, whose error is dropped.
SenderTransportFails ==
  /\ snd.pc \in {"wait_accept", "chunks", "wait_verified"}
  /\ rcv.pc = "done"
  /\ \/ snd.pc = "chunks" /\ (~snd.cancel \/ Remaining(snd) = 0)
     \/ /\ ~HasMessage(net, "sender", snd.transport)
        /\ ~InFlight(net, "sender", snd.transport)
  /\ snd' = SenderReturns(snd, "Network")
  /\ UNCHANGED <<files, rcv, net, disk, adv, call, sessions, ui>>

\* ------------------------------------------------------------- run_receive

\* FileReassembler::new at a target path: File::create makes the file or
\* truncates it; the handle starts at offset 0 with a fresh checksum.
NewReassembler(path) ==
  [open |-> TRUE, path |-> path, bytes_written |-> 0, checksum |-> ChecksumNew]

\* A slot that stays open after its file completed.
Taken_left_open(r) == r

\* Option::take / a completed slot of the reassemblers vector.
Taken(r) == [r EXCEPT !.open = FALSE]

\* The reassembler creation loop over the offer: entries are resolved and
\* created in order; the first entry whose relative_path sanitize_path
\* rejects ends the loop with that error.
RECURSIVE CreateReassemblers(_, _, _)
CreateReassemblers(infos, rs, d) ==
  IF infos = <<>> THEN [ok |-> TRUE, reassemblers |-> rs, disk |-> d]
  ELSE LET t == TargetPath(Head(infos))
       IN IF ~t.ok THEN [ok |-> FALSE, reassemblers |-> rs, disk |-> d]
          ELSE CreateReassemblers(Tail(infos),
                 Append(rs, NewReassembler(t.path)),
                 [d EXCEPT ![t.path] = [exists |-> TRUE, data |-> <<>>]])

\* write_all through a handle whose offset is off: the bytes replace what
\* the file holds from off on and extend it as needed.
WriteAt(data, off, bytes) ==
  LET end == Max(Len(data), off + Len(bytes))
  IN [k \in 1..end |->
        IF k > off /\ k <= off + Len(bytes) THEN bytes[k - off]
        ELSE IF k <= Len(data) THEN data[k]
        ELSE 0]

\* write_chunk without the authentication: whatever the box holds is hashed
\* and written.
write_chunk_unauthenticated(r, key, data, nonce, d) ==
  [ok |-> TRUE,
   reassembler |-> [r EXCEPT !.checksum = ChecksumUpdate(@, data.pt),
                             !.bytes_written = @ + Len(data.pt)],
   disk |-> [d EXCEPT ![r.path].data = WriteAt(@, r.bytes_written, data.pt)]]

\* FileReassembler::write_chunk: decrypt first; only a chunk that
\* authenticates is hashed, written and counted.
write_chunk(r, key, data, nonce, d) ==
  LET dec == decrypt_chunk(key, data, nonce)
  IN IF ~dec.ok THEN [ok |-> FALSE, reassembler |-> r, disk |-> d]
     ELSE [ok |-> TRUE,
           reassembler |-> [r EXCEPT
              !.checksum = ChecksumUpdate(@, dec.pt),
              !.bytes_written = @ + Len(dec.pt)],
           disk |-> [d EXCEPT ![r.path].data =
                        WriteAt(@, r.bytes_written, dec.pt)]]

\* verify without the comparison.
verify_anything(r, expected) == TRUE

\* FileReassembler::verify: the digest of what was written against the
\* digest file_complete carries.
verify(r, expected) == ChecksumFinalize(r.checksum) = expected

\* A cancel branch that leaves the files where they are.
RemoveTargets_nothing(infos, d) == d

\* The cancel branch's clean-up: remove_file for every entry of the offer
\* whose path resolves.
RECURSIVE RemoveTargets(_, _)
RemoveTargets(infos, d) ==
  IF infos = <<>> THEN d
  ELSE LET t == TargetPath(Head(infos))
       IN RemoveTargets(Tail(infos),
            IF t.ok THEN [d EXCEPT ![t.path] = NoFile] ELSE d)

\* The offer is read (this read is not raced against the cancel token).
ReceiverReadsOffer ==
  /\ rcv.pc = "wait_offer"
  /\ HasMessage(net, "receiver", rcv.transport)
  /\ LET m == NextMessage(net, "receiver", rcv.transport)
         r == [rcv EXCEPT !.seen = Append(@, m)]
     IN /\ net' = Consume(net, "receiver", rcv.transport)
        /\ IF m.type = "file_offer"
             THEN rcv' = [r EXCEPT !.pc = "wait_accept", !.files = m.files,
                                   !.events = Append(@, FileOfferEvent(m.files))]
             ELSE rcv' = ReceiverReturns(r, "Transfer", "expected_offer")
  /\ UNCHANGED <<files, snd, disk, adv, call, sessions, ui>>

\* What follows the select on the accept oracle and the cancel token.
ReceiverAnswers(accepted) ==
  IF ~accepted
    THEN /\ net' = Transmit(net, "receiver", rcv.transport, FileDecline)
         /\ rcv' = ReceiverReturns(
              [rcv EXCEPT !.log = Append(@, FileDecline)], "Cancelled", "declined")
         /\ disk' = disk
    ELSE LET made == CreateReassemblers(rcv.files, <<>>, disk)
             r == [rcv EXCEPT !.log = Append(@, FileAccept),
                              !.events = Append(@, StateChanged("transferring")),
                              !.reassemblers = made.reassemblers]
         IN /\ net' = Transmit(net, "receiver", rcv.transport, FileAccept)
            /\ disk' = made.disk
            /\ rcv' = IF made.ok THEN [r EXCEPT !.pc = "loop"]
                      ELSE ReceiverReturns(r, "Transfer", "sanitize_path")

\* The accept oracle's branch of the select: the user's answer, or false
\* when the oracle was dropped.
ReceiverGetsDecision ==
  /\ rcv.pc = "wait_accept"
  /\ rcv.accept # "pending"
  /\ ReceiverAnswers(rcv.accept = "yes")
  /\ UNCHANGED <<files, snd, adv, call, sessions, ui>>

\* The cancel branch of the same select counts as a refusal.
ReceiverCancelledBeforeAnswer ==
  /\ rcv.pc = "wait_accept"
  /\ rcv.cancel
  /\ ReceiverAnswers(FALSE)
  /\ UNCHANGED <<files, snd, adv, call, sessions, ui>>

\* The cancel branch of the loop's select: cancel is sent, the targets of
\* the offer are removed, Cancelled.
ReceiverLoopCancelled ==
  /\ rcv.pc = "loop"
  /\ rcv.cancel
  /\ net' = Transmit(net, "receiver", rcv.transport, Cancel("cancelled by receiver"))
  /\ disk' = RemoveTargets(rcv.files, disk)
  /\ rcv' = ReceiverReturns(
       [rcv EXCEPT !.log = Append(@, Cancel("cancelled by receiver"))],
       "Cancelled", "cancel")
  /\ UNCHANGED <<files, snd, adv, call, sessions, ui>>

\* The size the tracker is given for a chunk: the ciphertext length less the
\* tag when it is longer than the tag.
plaintext_size(data) ==
  IF DataLen(data) > TagLen THEN DataLen(data) - TagLen ELSE DataLen(data)

\* The file_chunk arm of the loop's match: the receiver, the transport and
\* the disk after it.
OnFileChunk(r, m, n, d) ==
  LET idx == m.file_index + 1
  IN IF idx > Len(r.reassemblers)
       THEN [rcv |-> ReceiverReturns(r, "Transfer", "invalid file index"),
             net |-> n, disk |-> d]
     ELSE IF ~r.reassemblers[idx].open
       THEN [rcv |-> ReceiverReturns(r, "Transfer", "file already completed"),
             net |-> n, disk |-> d]
     ELSE LET w == write_chunk(r.reassemblers[idx], r.key, m.data, m.nonce, d)
              total == r.bytes + plaintext_size(m.data)
          IN IF ~w.ok
               THEN [rcv |-> ReceiverReturns(r, "Crypto", "write_chunk"),
                     net |-> n, disk |-> d]
               ELSE [rcv |-> [r EXCEPT
                                !.reassemblers[idx] = w.reassembler,
                                !.bytes = total,
                                !.events = Append(@, TransferProgress(
                                              total, TotalBytes(r.files)))],
                     net |-> n, disk |-> w.disk]

\* The file_complete arm: the slot is indexed without a bounds check, so an
\* index past the vector panics; a taken slot is a Transfer error; a digest
\* that differs is ChecksumMismatch; otherwise file_verified is sent.
OnFileComplete(r, m, n, d) ==
  LET idx == m.file_index + 1
  IN IF idx > Len(r.reassemblers)
       THEN [rcv |-> ReceiverReturns(r, "Panic", "index out of bounds"),
             net |-> n, disk |-> d]
     ELSE IF ~r.reassemblers[idx].open
       THEN [rcv |-> ReceiverReturns(r, "Transfer", "file already completed"),
             net |-> n, disk |-> d]
     ELSE LET taken == [r EXCEPT !.reassemblers[idx] = Taken(@)]
          IN IF ~verify(r.reassemblers[idx], m.sha256)
               THEN [rcv |-> ReceiverReturns(taken, "ChecksumMismatch", "verify"),
                     net |-> n, disk |-> d]
               ELSE [rcv |-> [taken EXCEPT
                                !.log = Append(@, FileVerified(m.file_index)),
                                !.events = Append(@,
                                              FileCompleted(r.files[idx].name))],
                     net |-> Transmit(n, "receiver", r.transport,
                                      FileVerified(m.file_index)),
                     disk |-> d]

\* The transfer_complete arm breaks the loop: the event, then Ok.
OnTransferComplete(r, n, d) ==
  [rcv |-> ReceiverReturns(
             [r EXCEPT !.events = Append(@, TransferCompleteEvent(
                                     TotalBytes(r.files), Len(r.files)))],
             "Ok", "transfer_complete"),
   net |-> n, disk |-> d]

\* The match on a message the loop read.
OnLoopMessage(r, m, n, d) ==
  IF m.type = "file_chunk" THEN OnFileChunk(r, m, n, d)
  ELSE IF m.type = "file_complete" THEN OnFileComplete(r, m, n, d)
  ELSE IF m.type = "transfer_complete" THEN OnTransferComplete(r, n, d)
  ELSE IF m.type = "cancel"
    THEN [rcv |-> ReceiverReturns(r, "Transfer", "sender cancelled"),
          net |-> n, disk |-> d]
  ELSE [rcv |-> ReceiverReturns(r, "Transfer", "unexpected message"),
        net |-> n, disk |-> d]

\* The read branch of the loop's select.
ReceiverLoopMessage ==
  /\ rcv.pc = "loop"
  /\ HasMessage(net, "receiver", rcv.transport)
  /\ LET m == NextMessage(net, "receiver", rcv.transport)
         out == OnLoopMessage([rcv EXCEPT !.seen = Append(@, m)], m,
                              Consume(net, "receiver", rcv.transport), disk)
     IN /\ rcv' = out.rcv
        /\ net' = out.net
        /\ disk' = out.disk
  /\ UNCHANGED <<files, snd, adv, call, sessions, ui>>

\* A read of run_receive fails because the peer has returned and nothing
\* more is on its way.
ReceiverTransportFails ==
  /\ rcv.pc \in {"wait_offer", "loop"}
  /\ snd.pc = "done"
  /\ ~HasMessage(net, "receiver", rcv.transport)
  /\ ~InFlight(net, "receiver", rcv.transport)
  /\ rcv' = ReceiverReturns(rcv, "Network", "recv_peer_message")
  /\ UNCHANGED <<files, snd, net, disk, adv, call, sessions, ui>>

\* ------------------------------------------------------------ the two users

\* The pipeline still holds accept_rx: it has neither returned nor passed
\* the select on the accept oracle.
AcceptRxHeld(r) ==
  r.pc \in {"race", "dialing", "accept_bi", "wait_offer", "wait_accept"}

\* accept_transfer writing the answer whether or not an entry is pending.
AcceptTransfer_overwrites(accept) ==
  /\ rcv.accept_tx \/ rcv.accept_result # "no pending accept"
  /\ rcv' = [rcv EXCEPT
       !.accept_tx = FALSE,
       !.accept = IF AcceptRxHeld(rcv)
                    THEN (IF accept THEN "yes" ELSE "no") ELSE @,
       !.accept_result = IF ~rcv.accept_tx THEN "no pending accept"
                         ELSE IF AcceptRxHeld(rcv) THEN "Ok"
                         ELSE "channel closed"]
  /\ UNCHANGED <<files, snd, net, disk, adv, call, sessions, ui>>

\* accept_transfer(session, accept), called by the receiving user at any
\* time after start_receive stored the oneshot sender: the entry is removed
\* and the answer sent (the send fails when accept_rx is gone); without an
\* entry the call is an error. accept_result is what the last call returned.
AcceptTransfer(accept) ==
  /\ rcv.accept_tx \/ rcv.accept_result # "no pending accept"
  /\ rcv' = [rcv EXCEPT
       !.accept_tx = FALSE,
       !.accept = IF rcv.accept_tx /\ AcceptRxHeld(rcv)
                    THEN (IF accept THEN "yes" ELSE "no") ELSE @,
       !.accept_result = IF ~rcv.accept_tx THEN "no pending accept"
                         ELSE IF AcceptRxHeld(rcv) THEN "Ok"
                         ELSE "channel closed"]
  /\ UNCHANGED <<files, snd, net, disk, adv, call, sessions, ui>>

\* cancel_transfer(session) on the sending side.
CancelSender ==
  /\ snd.pc # "done"
  /\ ~snd.cancel
  /\ snd' = [snd EXCEPT !.cancel = TRUE]
  /\ UNCHANGED <<files, rcv, net, disk, adv, call, sessions, ui>>

\* cancel_transfer(session) on the receiving side.
CancelReceiver ==
  /\ rcv.pc # "done"
  /\ ~rcv.cancel
  /\ rcv' = [rcv EXCEPT !.cancel = TRUE, !.cancelled_in = rcv.pc]
  /\ UNCHANGED <<files, snd, net, disk, adv, call, sessions, ui>>

\* ----------------------------------------------------- the whole session

Network ==
  \/ QuicClientUp \/ QuicServerUp \/ QuicDialFails \/ QuicAcceptFails
  \/ \E x \in {"sender", "receiver"} :
       ServerRelayRequest(x) \/ ServerDisconnect(x) \/ ServerForward(x)

SendPipeline ==
  \/ SenderQuicAccepted \/ SenderQuicAcceptFailed \/ SenderQuicTimeout
  \/ SenderRelayRequested \/ SenderRaceCancelled
  \/ \E what \in SignalingSurprises : SenderSignalingSurprise(what)
  \/ SenderSendOffer \/ SenderReadsAnswer
  \/ SenderSendsChunk \/ SenderChunkCancelled \/ SenderSendsComplete
  \/ SenderReadsVerified \/ SenderTransportFails

RunReceive ==
  \/ ReceiverReadsOffer \/ ReceiverGetsDecision \/ ReceiverCancelledBeforeAnswer
  \/ ReceiverLoopMessage \/ ReceiverLoopCancelled \/ ReceiverTransportFails

ReceivePipeline ==
  \/ \E peer_info \in PeerInfos : ReceiverDial(peer_info) \/ ReceiverNoAddress(peer_info)
  \/ ReceiverQuicConnected \/ ReceiverQuicFailed \/ ReceiverQuicTimeout
  \/ ReceiverAcceptBi \/ ReceiverAcceptBiFailed
  \/ RunReceive

Users ==
  \/ \E accept \in BOOLEAN : AcceptTransfer(accept)
  \/ CancelSender \/ CancelReceiver

Next == Network \/ SendPipeline \/ ReceivePipeline \/ Users

Spec == Init /\ [][Next]_vars

\* The pipelines and the network take their steps; the users need not act.
FairSpec ==
  /\ Spec
  /\ WF_vars(Network)
  /\ WF_vars(SendPipeline)
  /\ WF_vars(ReceivePipeline)

\* ------------------------------- run_receive against an arbitrary peer

\* Offers a peer can make: one flat file, a flat file and a folder entry, a
\* flat file and an entry whose relative_path holds a parent component.
PeerOffers ==
  LET a == [name |-> <<"a">>, size |-> 1, has_rel |-> FALSE, rel |-> <<>>]
      db == [name |-> <<"b">>, size |-> 1, has_rel |-> TRUE,
             rel |-> <<"d", "/", "b">>]
      up == [name |-> <<"b">>, size |-> 1, has_rel |-> TRUE,
             rel |-> <<".", ".", "/", "b">>]
  IN {<<a>>, <<a, db>>, <<a, up>>}

\* Chunks a peer can send for any 16-bit file index the bounds allow: sealed
\* under the session key, sealed under another key, with the ciphertext
\* altered, or with a nonce other than the one it was sealed with.
PeerChunks ==
  LET enc == [nonce_prefix |-> 0, counter |-> 0]
      good == encrypt_chunk(enc, GoodKey, <<1>>)
      wrong == encrypt_chunk(enc, BadKey, <<1>>)
  IN UNION {{FileChunk(i, 0, good.data, good.nonce),
             FileChunk(i, 0, wrong.data, wrong.nonce),
             FileChunk(i, 0, [good.data EXCEPT !.intact = FALSE], good.nonce),
             FileChunk(i, 0, good.data, make_nonce(NextEncryptor(enc)))}
            : i \in 0..MaxFiles}

\* file_complete messages a peer can send: any index, the digest of nothing,
\* of one chunk or of two.
PeerCompletes ==
  {FileComplete(i, ChecksumFinalize(h)) :
     i \in 0..MaxFiles, h \in {<<>>, <<1>>, <<1, 1>>}}

PeerMessages ==
  {FileOffer(infos) : infos \in PeerOffers} \cup PeerChunks \cup PeerCompletes
    \cup {TransferComplete, Cancel(<<"x">>), Ping, FileAccept}

\* run_receive is entered over a direct transport whose peer is not run_send.
InitPeer ==
  /\ files = <<>>
  /\ snd = [pc |-> "peer", result |-> "none", transport |-> "Direct",
            key |-> GoodKey, cancel |-> FALSE,
            idx |-> 0, off |-> 0,
            enc |-> [nonce_prefix |-> 0, counter |-> 0],
            checksum |-> ChecksumNew, chunk_index |-> 0,
            bytes |-> 0, events |-> <<>>, log |-> <<>>, seen |-> <<>>]
  /\ rcv = [pc |-> "wait_offer", result |-> "none", transport |-> "Direct",
            key |-> GoodKey, cancel |-> FALSE, accept |-> "pending",
            accept_tx |-> TRUE, accept_result |-> "none",
            files |-> <<>>, reassemblers |-> <<>>,
            bytes |-> 0,
            events |-> <<ConnectionTypeChanged("direct"),
                         StateChanged("transferring")>>,
            log |-> <<>>,
            seen |-> <<>>, cancelled_in |-> "none", exit |-> "none"]
  /\ net = [quic |-> "both_up", bi_open |-> TRUE, fin |-> FALSE,
            s2r |-> <<>>, r2s |-> <<>>,
            up |-> [x \in {"sender", "receiver"} |-> <<>>],
            down |-> [x \in {"sender", "receiver"} |-> <<>>],
            sent |-> [x \in {"sender", "receiver"} |-> <<>>]]
  /\ disk = [p \in DiskPaths |-> NoFile]
  /\ adv = 0
  /\ call = NoCall
  /\ sessions = NoSessions
  /\ ui = NoUi

\* The peer writes one more message when the receiver has read the last.
PeerSends(m) ==
  /\ snd.pc = "peer"
  /\ rcv.pc # "done"
  /\ adv < MaxInject
  /\ ~HasMessage(net, "receiver", rcv.transport)
  /\ net' = Transmit(net, "sender", snd.transport, m)
  /\ adv' = adv + 1
  /\ UNCHANGED <<files, snd, rcv, disk, call, sessions, ui>>

\* The peer closes the connection.
PeerCloses ==
  /\ snd.pc = "peer"
  /\ snd' = [snd EXCEPT !.pc = "done"]
  /\ UNCHANGED <<files, rcv, net, disk, adv, call, sessions, ui>>

NextPeer ==
  \/ \E m \in PeerMessages : PeerSends(m)
  \/ PeerCloses
  \/ RunReceive
  \/ \E accept \in BOOLEAN : AcceptTransfer(accept)
  \/ CancelReceiver

SpecPeer == InitPeer /\ [][NextPeer]_vars

\* ================================================================ properties

\* How often message m occurs in the sequence q.
Count(q, m) == Cardinality({k \in 1..Len(q) : q[k] = m})

\* The step reads one peer message in the receiver's chunk loop.
ReadInLoop == rcv.pc = "loop" /\ Len(rcv'.seen) = Len(rcv.seen) + 1

\* The receive pipeline's own state: the receiver without the command
\* layer's entry of the accept store and the result of its last call.
PipelineState(r) == [r EXCEPT !.accept_tx = FALSE, !.accept_result = "none"]

\* Once run_receive has returned, nothing of the pipeline or the disk
\* changes: no further message is processed, written or answered.
ReturnedIsFinal ==
  rcv.pc = "done" => PipelineState(rcv') = PipelineState(rcv) /\ disk' = disk

\* C1: with an honest sender, accept = true and no cancel, whenever
\* run_receive returns success every entry's target path holds exactly the
\* bytes of the sender's source file for that entry.
C1_DiskEqualsSource ==
  (rcv.result = "Ok" /\ rcv.accept = "yes" /\ ~rcv.cancel /\ ~snd.cancel)
    => \A i \in 1..Len(files) :
         LET t == TargetPath(InfoOf(files[i]))
         IN t.ok /\ disk[t.path].exists /\ disk[t.path].data = files[i].content

\* C2: no reachable state has one endpoint committed to Direct while the
\* other is committed to Relayed.
C2_SameTransportKind ==
  ~(snd.transport # "none" /\ rcv.transport # "none"
      /\ snd.transport # rcv.transport)

\* C3: on either role, once the cancel token is triggered the pipeline
\* eventually returns.
C3_CancelTerminates ==
  /\ snd.cancel ~> snd.pc = "done"
  /\ rcv.cancel ~> rcv.pc = "done"

\* The chunk that the data or the nonce of was altered, or that was sealed
\* under another key than the receiver's.
Altered(m, key) ==
  ~m.data.intact \/ m.data.key # key \/ m.data.nonce # m.nonce

\* C4: a file_chunk for an open file whose data or nonce was altered, or
\* which was sealed under a different key, makes the receiver return Crypto:
\* nothing is written or hashed, no message and no event but the report of
\* the error is emitted for it, and nothing is processed afterwards.
C4_AlteredChunkIsCrypto ==
  [][/\ ( /\ ReadInLoop
          /\ LastSeen(rcv').type = "file_chunk"
          /\ LastSeen(rcv').file_index < Len(rcv.reassemblers)
          /\ rcv.reassemblers[LastSeen(rcv').file_index + 1].open
          /\ Altered(LastSeen(rcv'), rcv.key) )
        => /\ rcv'.pc = "done" /\ rcv'.result = "Crypto"
           /\ disk' = disk
           /\ rcv'.reassemblers = rcv.reassemblers
           /\ rcv'.bytes = rcv.bytes
           /\ rcv'.events = Append(rcv.events, ErrorEvent("Crypto"))
           /\ rcv'.log = rcv.log
     /\ ReturnedIsFinal]_vars

\* C4 happens: the receiver returned Crypto on an altered chunk.
C4_Witness ==
  /\ rcv.result = "Crypto"
  /\ LastSeen(rcv).type = "file_chunk"
  /\ Altered(LastSeen(rcv), rcv.key)

\* The digest of the plaintext that was written to the target of slot idx.
WrittenDigest(idx) == ChecksumFinalize(disk[rcv.reassemblers[idx].path].data)

\* C5: file_complete{i} for an open file is answered with file_verified{i}
\* exactly when its sha256 is the digest of the plaintext written for file i;
\* otherwise the receiver returns ChecksumMismatch and sends nothing; no
\* file_verified is sent in any other step, and nothing is processed after
\* the return.
C5_VerifiedOnlyOnMatch ==
  [][/\ ( /\ ReadInLoop
          /\ LastSeen(rcv').type = "file_complete"
          /\ LastSeen(rcv').file_index < Len(rcv.reassemblers)
          /\ rcv.reassemblers[LastSeen(rcv').file_index + 1].open )
        => IF LastSeen(rcv').sha256 = WrittenDigest(LastSeen(rcv').file_index + 1)
             THEN rcv'.log = Append(rcv.log, FileVerified(LastSeen(rcv').file_index))
             ELSE /\ rcv'.pc = "done" /\ rcv'.result = "ChecksumMismatch"
                  /\ rcv'.log = rcv.log
     /\ ( /\ rcv'.log # rcv.log
          /\ rcv'.log[Len(rcv'.log)].type = "file_verified" )
        => /\ ReadInLoop
           /\ LastSeen(rcv').type = "file_complete"
           /\ LastSeen(rcv').file_index = rcv'.log[Len(rcv'.log)].file_index
           /\ LastSeen(rcv').file_index < Len(rcv.reassemblers)
           /\ LastSeen(rcv').sha256 = WrittenDigest(LastSeen(rcv').file_index + 1)
     /\ ReturnedIsFinal]_vars

\* C5 happens: a file whose plaintext was written has been verified.
C5_Witness ==
  /\ rcv.log # <<>>
  /\ rcv.log[Len(rcv.log)].type = "file_verified"
  /\ rcv.bytes > 0

\* C6: a file_chunk or file_complete read in the loop whose file_index is not
\* less than the number of offered files makes the receiver return a
\* Transfer error.
C6_OutOfRangeIsTransferError ==
  ( /\ Len(rcv.seen) >= 2
    /\ LastSeen(rcv).type \in {"file_chunk", "file_complete"}
    /\ LastSeen(rcv).file_index >= Len(rcv.files) )
    => rcv.pc = "done" /\ rcv.result = "Transfer"

\* C7: once file i has completed, a second file_complete{i} or a further
\* file_chunk for i makes the receiver return a Transfer error without
\* writing or answering, and no index is verified twice.
C7_CompletedFileIsClosed ==
  [][/\ ( /\ ReadInLoop
          /\ LastSeen(rcv').type \in {"file_chunk", "file_complete"}
          /\ LastSeen(rcv').file_index < Len(rcv.reassemblers)
          /\ ~rcv.reassemblers[LastSeen(rcv').file_index + 1].open )
        => /\ rcv'.pc = "done" /\ rcv'.result = "Transfer"
           /\ disk' = disk
           /\ rcv'.log = rcv.log
     /\ \A i \in 0..MaxFiles : Count(rcv'.log, FileVerified(i)) <= 1]_vars

\* C7 happens: a message for a completed file was refused.
C7_Witness ==
  /\ rcv.result = "Transfer"
  /\ rcv.exit = "file already completed"
  /\ Count(rcv.log, FileVerified(LastSeen(rcv).file_index)) = 1

\* C8: whenever run_receive returns success, every file of the accepted
\* offer received exactly one file_complete and was answered with exactly one
\* file_verified.
C8_SuccessMeansAllVerified ==
  rcv.result = "Ok"
    => \A i \in 1..Len(rcv.files) :
         /\ Cardinality({k \in 1..Len(rcv.seen) :
              /\ rcv.seen[k].type = "file_complete"
              /\ rcv.seen[k].file_index = i - 1}) = 1
         /\ Count(rcv.log, FileVerified(i - 1)) = 1

\* The receive pipeline read the offer and came to its accept wait.
OfferRead == rcv.seen # <<>> /\ rcv.seen[1].type = "file_offer"

\* C9: after the user refused, the receiver never sends file_accept, sends
\* file_decline at most once and creates no target file; when the refusal
\* reached the accept wait the receiver returns Cancelled with file_decline
\* sent once; a sender that read file_decline has returned PeerRejected and
\* sent no file_chunk.
C9_DeclineIsClean ==
  /\ rcv.accept = "no"
       => /\ \A k \in 1..Len(rcv.log) : rcv.log[k].type # "file_accept"
          /\ Count(rcv.log, FileDecline) <= 1
          /\ \A p \in DiskPaths : ~disk[p].exists
          /\ (rcv.pc = "done" /\ OfferRead)
               => rcv.result = "Cancelled" /\ Count(rcv.log, FileDecline) = 1
  /\ LastSeen(snd).type = "file_decline"
       => /\ snd.pc = "done" /\ snd.result = "PeerRejected"
          /\ \A k \in 1..Len(snd.log) : snd.log[k].type # "file_chunk"

\* C9 happens: the user refused and both pipelines returned.
C9_Witness ==
  /\ rcv.accept = "no"
  /\ rcv.result = "Cancelled"
  /\ snd.result = "PeerRejected"

VerifiedAllRead ==
  Cardinality({k \in 1..Len(rcv.log) : rcv.log[k].type = "file_verified"})
    = Cardinality({k \in 1..Len(snd.seen) : snd.seen[k].type = "file_verified"})

\* C11: once the receiver has cancelled in its chunk loop, a sender that is
\* in its per-file loop (writing chunks or waiting for file_verified) and was
\* not cancelled itself returns a Transfer error and nothing else.
C11_SenderSeesPeerCancel ==
  [][( /\ rcv.exit = "cancel"
       /\ snd.pc \in {"chunks", "wait_verified"}
       /\ ~snd.cancel
       /\ VerifiedAllRead
       /\ snd'.pc = "done" )
     => snd'.result = "Transfer"]_vars

\* ----------------------------------------------------------------- SPAKE2

\* Order of the group the exchange is computed in: elements and scalars are
\* integers modulo SpakeOrder, the generator is 1 and a * P is a * P mod
\* SpakeOrder.
SpakeOrder == 7

\* The public blinding element S of the symmetric mode.
SpakeS == 3

\* The transfer codes of the two unit tests.
Codes == {"7-guitar-palace", "3-banana-mountain"}

\* Password::new(code) as a scalar (hash to scalar, different for the two codes).
PasswordScalar(code) == IF code = "7-guitar-palace" THEN 1 ELSE 2

\* KeyExchange::new: Spake2::start_symmetric with the random scalar x; the
\* outbound message is x * G + pw * S.
KeyExchange_new(code, x) ==
  [code |-> code, x |-> x,
   outbound_msg |-> (x + PasswordScalar(code) * SpakeS) % SpakeOrder]

\* BASE64_STANDARD.encode / decode of the message in the signaling JSON.
Base64Encode(bytes) == [base64 |-> bytes]
Base64Decode(text) == text.base64

\* SignalingClient::exchange_spake2 as seen by the peer: what it decodes
\* from the spake2 message this side sent.
exchange_spake2(outbound) == Base64Decode(Base64Encode(outbound))

\* finish without removing the password blinding from the peer's element.
KeyExchange_finish_blinded(kx, peer_message) ==
  LET K == (kx.x * peer_message) % SpakeOrder
  IN  [pw |-> kx.code,
       first |-> Min(kx.outbound_msg, peer_message),
       second |-> Max(kx.outbound_msg, peer_message),
       K |-> K]

\* KeyExchange::finish: K = x * (peer - pw * S); the key is the hash of the
\* password, the two messages in sorted order, and K.
KeyExchange_finish(kx, peer_message) ==
  LET unblinded == (peer_message + SpakeOrder * SpakeOrder
                      - PasswordScalar(kx.code) * SpakeS) % SpakeOrder
      K == (kx.x * unblinded) % SpakeOrder
  IN  [pw |-> kx.code,
       first |-> Min(kx.outbound_msg, peer_message),
       second |-> Max(kx.outbound_msg, peer_message),
       K |-> K]

\* Both endpoints run step 4 of their pipeline: new, exchange_spake2, finish.
KeyExchangeRun(a) ==
  LET sender == KeyExchange_new(a.sender_code, a.x)
      receiver == KeyExchange_new(a.receiver_code, a.y)
  IN  [sender_key |-> KeyExchange_finish(sender, exchange_spake2(receiver.outbound_msg)),
       receiver_key |-> KeyExchange_finish(receiver, exchange_spake2(sender.outbound_msg))]

KeyExchangeInputs ==
  [sender_code : Codes, receiver_code : Codes,
   x : 0..(SpakeOrder - 1), y : 0..(SpakeOrder - 1)]

\* ---------------------------------------------------------------- framing

\* The largest length header read_message accepts: 256 * 1024 * 1024.
MaxMessageLen == 268435456

\* Length headers and payload lengths of the frames read: around the limit.
FrameLengths ==
  {0, 1, MaxMessageLen - 1, MaxMessageLen, MaxMessageLen + 1, 2 * MaxMessageLen}

\* A frame as it arrives: the u32 big-endian header, the number of payload
\* bytes that follow it, and whether those bytes are a MessagePack
\* PeerMessage.
Frames == [header : FrameLengths, payload : FrameLengths, valid : BOOLEAN]

\* The outcome of reading a frame: the error returned ("none" for Ok) and
\* whether the payload was handed to the decoder.
ReadOutcome(error, decoded) == [error |-> error, decoded |-> decoded]

\* read_message on the QUIC stream: the header, the limit, read_exact of
\* the payload, the decoder.
read_message(frame) ==
  LET len == frame.header
  IN  IF len > MaxMessageLen THEN ReadOutcome("Transfer", FALSE)
      ELSE IF frame.payload < len THEN ReadOutcome("Network", FALSE)
      ELSE IF ~frame.valid THEN ReadOutcome("Serialization", TRUE)
      ELSE ReadOutcome("none", TRUE)

\* RelayStream::recv_message on a binary websocket frame of 4 + payload
\* bytes: the header must agree with the frame's size; then the decoder.
recv_message(frame) ==
  LET len == frame.header
      data_len == 4 + frame.payload
  IN  IF data_len < 4 THEN ReadOutcome("Transfer", FALSE)
      ELSE IF data_len # 4 + len THEN ReadOutcome("Transfer", FALSE)
      ELSE IF ~frame.valid THEN ReadOutcome("Serialization", TRUE)
      ELSE ReadOutcome("none", TRUE)

\* Transport::recv_peer_message.
recv_peer_message(kind, frame) ==
  IF kind = "Direct" THEN read_message(frame) ELSE recv_message(frame)

\* ---------------------------------------------------------- transfer code

\* wordlist(): the dictionary, here four of its words (lowercase, no '-').
WORDLIST ==
  {<<"g", "u", "i", "t", "a", "r">>, <<"p", "a", "l", "a", "c", "e">>,
   <<"b", "a", "n", "a", "n", "a">>, <<"m", "o", "u", "n", "t", "a", "i", "n">>}

\* TransferCode::generate: a digit below 10 and two words of the dictionary.
GeneratedCodes == [digit : 0..9, word1 : WORDLIST, word2 : WORDLIST]

\* TransferCode::to_code_string: "{digit}-{word1}-{word2}".
to_code_string(code) ==
  FormatU8(code.digit) \o <<"-">> \o code.word1 \o <<"-">> \o code.word2

\* str::trim for the blank character.
RECURSIVE Trim(_)
Trim(s) ==
  IF s # <<>> /\ Head(s) = " " THEN Trim(Tail(s))
  ELSE IF s # <<>> /\ s[Len(s)] = " " THEN Trim(SubSeq(s, 1, Len(s) - 1))
  ELSE s

\* str::splitn(n, '-'): at most n parts, the last one takes the rest.
RECURSIVE SplitN(_, _, _)
SplitN(s, n, cur) ==
  IF s = <<>> THEN <<cur>>
  ELSE IF n > 1 /\ Head(s) = "-" THEN <<cur>> \o SplitN(Tail(s), n - 1, <<>>)
  ELSE SplitN(Tail(s), n, Append(cur, Head(s)))

\* str::parse::<u8>: decimal digits with a value of at most 255.
ParseU8(s) ==
  IF s = <<>> \/ Len(s) > 3 \/ ~(Range(s) \subseteq Range(DigitChars))
    THEN [ok |-> FALSE, value |-> 0]
  ELSE IF DecimalValue(s) > 255 THEN [ok |-> FALSE, value |-> 0]
  ELSE [ok |-> TRUE, value |-> DecimalValue(s)]

\* str::to_lowercase on the letters used here.
ToLowercase(s) ==
  [i \in 1..Len(s) |-> IF s[i] = "A" THEN "a" ELSE IF s[i] = "B" THEN "b" ELSE s[i]]

InvalidCode == [ok |-> FALSE, digit |-> 0, word1 |-> <<>>, word2 |-> <<>>]

\* TransferCode::parse that takes 9 for out of range.
TransferCode_parse_below_nine(code) ==
  LET parts == SplitN(Trim(code), 3, <<>>)
  IN  IF Len(parts) # 3 THEN InvalidCode
      ELSE LET digit == ParseU8(parts[1])
               word1 == ToLowercase(parts[2])
               word2 == ToLowercase(parts[3])
           IN  IF ~digit.ok \/ digit.value > 8 THEN InvalidCode
               ELSE IF word1 \notin WORDLIST \/ word2 \notin WORDLIST
                 THEN InvalidCode
               ELSE [ok |-> TRUE, digit |-> digit.value,
                     word1 |-> word1, word2 |-> word2]

\* TransferCode::parse.
TransferCode_parse(code) ==
  LET parts == SplitN(Trim(code), 3, <<>>)
  IN  IF Len(parts) # 3 THEN InvalidCode
      ELSE LET digit == ParseU8(parts[1])
               word1 == ToLowercase(parts[2])
               word2 == ToLowercase(parts[3])
           IN  IF ~digit.ok \/ digit.value > 9 THEN InvalidCode
               ELSE IF word1 \notin WORDLIST \/ word2 \notin WORDLIST
                 THEN InvalidCode
               ELSE [ok |-> TRUE, digit |-> digit.value,
                     word1 |-> word1, word2 |-> word2]

\* ------------------------------------------------------- expand_directory

\* Levels of entries below the root of the directory that is expanded.
MaxDepth == 3

HIDDEN_ENTRIES ==
  {<<".", "DS_Store">>, <<".", "git">>, <<"Thumbs.db">>, <<".", "gitignore">>,
   <<"__MACOSX">>}

\* The names an entry can have at each level below the root.
DirNames(level) ==
  IF level = 1 THEN {<<"a">>, <<".", "x">>}
  ELSE IF level = 2 THEN {<<"b">>, <<"d">>, <<"Thumbs.db">>}
  ELSE {<<"c">>}

\* The kinds of entry that are not directories, at each level.
LeafKinds(level) == IF level = 1 THEN {"file", "symlink"} ELSE {"file"}

\* The elements of a finite set in some order (read_dir's order is the
\* operating system's).
RECURSIVE SeqOf(_)
SeqOf(S) ==
  IF S = {} THEN <<>>
  ELSE LET x == CHOOSE y \in S : TRUE IN <<x>> \o SeqOf(S \ {x})

\* The entries es moved below the directory called name.
Under(name, es) == {[path |-> <<name>> \o e.path, kind |-> e.kind] : e \in es}

\* What a directory with a dot or junk name holds: nothing, or one file.
ShallowContents == {{}, {[path |-> <<<<"c">>>>, kind |-> "file"]}}

\* A directory tree is the set of its entries: the path from the root and
\* the kind (file, dir, or symlink, which is neither to DirEntry::file_type).
\* DirContents(level): every content a directory at that level can have;
\* the entries of the deepest level are not directories, and directories
\* with a dot or junk name hold one of ShallowContents.
RECURSIVE Options(_, _), Combine(_, _), DirContents(_)
Options(name, level) ==
  {{}} \cup {{[path |-> <<name>>, kind |-> k]} : k \in LeafKinds(level)}
       \cup {{[path |-> <<name>>, kind |-> "dir"]} \cup Under(name, sub) :
               sub \in IF level >= MaxDepth THEN {}
                       ELSE IF Len(name) = 1 /\ name \notin HIDDEN_ENTRIES
                         THEN DirContents(level + 1)
                       ELSE ShallowContents}
Combine(names, level) ==
  IF names = <<>> THEN {{}}
  ELSE {o \cup rest : o \in Options(Head(names), level),
                       rest \in Combine(Tail(names), level)}
DirContents(level) == Combine(SeqOf(DirNames(level)), level)

DirectoryTrees == DirContents(1)

\* The prefix expand_paths passes: the directory's own name.
ExpandPrefix == <<"t">>

\* Only the leading dot hides a name.
Hidden_only_dot(name) == Head(name) = "."

\* name.starts_with('.') || HIDDEN_ENTRIES.contains(name)
Hidden(name) == Head(name) = "." \/ name \in HIDDEN_ENTRIES

\* read_dir(dir): the entries directly in dir.
EntriesOf(tree, dir) ==
  {e \in tree : /\ Len(e.path) = Len(dir) + 1
                 /\ SubSeq(e.path, 1, Len(dir)) = dir}

\* The inner loop over the entries of current: hidden names are skipped,
\* directories pushed on the stack, files pushed on the result.
RECURSIVE ReadEntries(_, _, _)
ReadEntries(entries, current, st) ==
  IF entries = <<>> THEN st
  ELSE LET e == Head(entries)
           name == e.path[Len(e.path)]
           relative == current.prefix \o <<"/">> \o name
           next == IF Hidden(name) THEN st
                   ELSE IF e.kind = "dir"
                     THEN [st EXCEPT !.stack =
                             Append(@, [dir |-> e.path, prefix |-> relative])]
                   ELSE IF e.kind = "file"
                     THEN [st EXCEPT !.result =
                             Append(@, [path |-> e.path, relative |-> relative])]
                   ELSE st
       IN  ReadEntries(Tail(entries), current, next)

\* ------------------------------------------------- functions on their own

\* Longest relative_path or file name given to the sanitizers.
MaxPathLen == 5

\* The characters of those strings: two letters, the dot, both separators
\* and the NUL character.
PathChars == {"a", "b", ".", "/", "\\", "NUL"}

PathInputs == SeqsUpTo(PathChars, MaxPathLen)

\* One pending call of fn on arg.
Pending(fn, arg) == [fn |-> fn, arg |-> arg, done |-> FALSE, ret |-> <<>>]

CallInputs ==
  {Pending(fn, arg) : fn \in {"sanitize_path", "sanitize_filename"},
                      arg \in PathInputs}
    \cup {Pending("key_exchange", arg) : arg \in KeyExchangeInputs}
    \cup {Pending("code_roundtrip", arg) : arg \in GeneratedCodes}
    \cup {Pending("expand_directory", arg) : arg \in DirectoryTrees}
    \cup {Pending("resolve_peer_addr", arg) : arg \in PeerInfos}
    \cup {Pending("recv_peer_message", [kind |-> k, frame |-> f]) :
            k \in {"Direct", "Relayed"}, f \in Frames}

\* The pipelines are not started; one function is about to be called.
InitCalls ==
  /\ files = <<>>
  /\ snd = [pc |-> "idle"]
  /\ rcv = [pc |-> "idle"]
  /\ net = [quic |-> "idle"]
  /\ disk = <<>>
  /\ adv = 0
  /\ call \in CallInputs
  /\ sessions = NoSessions
  /\ ui = NoUi

Returns(v) ==
  /\ call' = [call EXCEPT !.done = TRUE, !.ret = v]
  /\ UNCHANGED <<files, snd, rcv, net, disk, adv, sessions, ui>>

CallSanitizePath ==
  /\ call.fn = "sanitize_path"
  /\ ~call.done
  /\ Returns(sanitize_path(call.arg))

CallSanitizeFilename ==
  /\ call.fn = "sanitize_filename"
  /\ ~call.done
  /\ Returns(sanitize_filename(call.arg))

CallResolvePeerAddr ==
  /\ call.fn = "resolve_peer_addr"
  /\ ~call.done
  /\ Returns(resolve_peer_addr(call.arg))

CallKeyExchange ==
  /\ call.fn = "key_exchange"
  /\ ~call.done
  /\ Returns(KeyExchangeRun(call.arg))

CallRecvPeerMessage ==
  /\ call.fn = "recv_peer_message"
  /\ ~call.done
  /\ Returns(recv_peer_message(call.arg.kind, call.arg.frame))

\* test_generate_and_parse_roundtrip for one generated code.
CallCodeRoundTrip ==
  /\ call.fn = "code_roundtrip"
  /\ ~call.done
  /\ Returns(TransferCode_parse(to_code_string(call.arg)))

\* expand_directory(dir, prefix) starts: the result is empty and the stack
\* holds the root.
ExpandDirectoryStarts ==
  /\ call.fn = "expand_directory"
  /\ ~call.done
  /\ call.ret = <<>>
  /\ call' = [call EXCEPT !.ret = [stack |-> <<[dir |-> <<>>, prefix |-> ExpandPrefix]>>,
                                   result |-> <<>>]]
  /\ UNCHANGED <<files, snd, rcv, net, disk, adv, sessions, ui>>

\* One turn of the outer loop: a directory is popped and its entries read.
ExpandDirectoryPops ==
  /\ call.fn = "expand_directory"
  /\ ~call.done
  /\ call.ret # <<>>
  /\ call.ret.stack # <<>>
  /\ LET stack == call.ret.stack
         current == stack[Len(stack)]
         st == [call.ret EXCEPT !.stack = SubSeq(stack, 1, Len(stack) - 1)]
     IN  call' = [call EXCEPT !.ret =
                    ReadEntries(SeqOf(EntriesOf(call.arg, current.dir)), current, st)]
  /\ UNCHANGED <<files, snd, rcv, net, disk, adv, sessions, ui>>

\* The stack is empty: Ok(result).
ExpandDirectoryReturns ==
  /\ call.fn = "expand_directory"
  /\ ~call.done
  /\ call.ret # <<>>
  /\ call.ret.stack = <<>>
  /\ call' = [call EXCEPT !.done = TRUE]
  /\ UNCHANGED <<files, snd, rcv, net, disk, adv, sessions, ui>>

NextCalls ==
  \/ CallSanitizePath
  \/ CallSanitizeFilename
  \/ CallKeyExchange
  \/ CallRecvPeerMessage
  \/ CallCodeRoundTrip
  \/ CallResolvePeerAddr
  \/ ExpandDirectoryStarts
  \/ ExpandDirectoryPops
  \/ ExpandDirectoryReturns

SpecCalls == InitCalls /\ [][NextCalls]_vars

\* expand_directory called on its own; a call that can take a turn of its
\* loop takes it.
InitExpand == InitCalls /\ call.fn = "expand_directory"

NextExpand ==
  ExpandDirectoryStarts \/ ExpandDirectoryPops \/ ExpandDirectoryReturns

SpecExpand == InitExpand /\ [][NextExpand]_vars /\ WF_vars(NextExpand)

\* The function fn has returned.
Returned(fn) == call.fn = fn /\ call.done

\* s has ".." as a whole component: between the start or a '/' and the end
\* or a '/'.
HasParentComponent(s) ==
  \E i \in 1..(Len(s) - 1) :
    /\ s[i] = "." /\ s[i + 1] = "."
    /\ (i = 1 \/ s[i - 1] = "/")
    /\ (i + 1 = Len(s) \/ s[i + 2] = "/")

\* s contains ".." anywhere.
HasDotDot(s) == \E i \in 1..(Len(s) - 1) : s[i] = "." /\ s[i + 1] = "."

\* The components joined with '/'.
RECURSIVE JoinSlash(_)
JoinSlash(cs) ==
  IF cs = <<>> THEN <<>>
  ELSE IF Len(cs) = 1 THEN cs[1]
  ELSE cs[1] \o <<"/">> \o JoinSlash(Tail(cs))

\* A Normal component: not empty, not "." or "..", no separator and no NUL.
IsNormal(c) ==
  /\ c # <<>>
  /\ c # <<".">>
  /\ c # <<".", ".">>
  /\ Range(c) \cap {"/", "\\", "NUL"} = {}

\* A path that is already safe: letters and dots in non-empty components that
\* are not "." or "..", one '/' between two components.
AlreadySafe(s) ==
  /\ s # <<>>
  /\ Range(s) \subseteq {"a", "b", ".", "/"}
  /\ s[1] # "/" /\ s[Len(s)] # "/"
  /\ \A i \in 1..(Len(s) - 1) : ~(s[i] = "/" /\ s[i + 1] = "/")
  /\ ~HasParentComponent(s)
  /\ \A i \in 1..Len(s) :
       s[i] = "." => ~( /\ (i = 1 \/ s[i - 1] = "/")
                        /\ (i = Len(s) \/ s[i + 1] = "/") )

\* C12: sanitize_path rejects a relative_path or returns a non-empty path of
\* Normal components; it rejects the empty string, a leading '/' or '\', a
\* NUL and a ".." component; a path that is already safe comes back with the
\* same components in the same order.
C12_SanitizePathIsSafe ==
  Returned("sanitize_path") =>
    LET s == call.arg
        r == call.ret
    IN  /\ r.ok => r.path # <<>> /\ \A c \in Range(r.path) : IsNormal(c)
        /\ ( \/ s = <<>>
             \/ s[1] \in {"/", "\\"}
             \/ "NUL" \in Range(s)
             \/ HasParentComponent(s) ) => ~r.ok
        /\ AlreadySafe(s) => r.ok /\ JoinSlash(r.path) = s

\* sanitize_path was called on a three-component path with a '\' inside a
\* component and accepted it.
C12_Witness ==
  /\ Returned("sanitize_path")
  /\ call.ret.ok
  /\ Len(call.ret.path) = 2
  /\ "\\" \in Range(call.arg)
  /\ <<".", "/">> = SubSeq(call.arg, 1, 2)

\* C13: sanitize_filename returns a non-empty name without '/', '\', NUL or
\* "..", and unnamed_file when nothing is left of the name.
C13_SanitizeFilenameIsSafe ==
  Returned("sanitize_filename") =>
    LET r == call.ret
    IN  /\ r # <<>>
        /\ Range(r) \cap {"/", "\\", "NUL"} = {}
        /\ ~HasDotDot(r)
        /\ Range(call.arg) \subseteq {"NUL"} => r = unnamed_file

\* C14: on each endpoint's signaling websocket, every frame written after
\* request_relay is a binary peer frame: no JSON message, disconnect
\* included, follows request_relay.
C14_OnlyBinaryAfterRelay ==
  \A x \in {"sender", "receiver"} :
    \A i, j \in 1..Len(net.sent[x]) :
      (i < j /\ net.sent[x][i] = "request_relay") => net.sent[x][j] = "binary"

\* Both endpoints sent request_relay and then wrote peer frames, and both
\* pipelines have returned.
C14_Witness ==
  /\ snd.pc = "done" /\ rcv.pc = "done"
  /\ \A x \in {"sender", "receiver"} :
       /\ net.sent[x] # <<>>
       /\ net.sent[x][1] = "request_relay"
       /\ Len(net.sent[x]) >= 3

\* C15: no two file_chunk messages of a session are sealed with the same
\* nonce under the session key, whatever prefixes the encryptors draw.
C15_NoncesUnique ==
  \A i, j \in 1..Len(snd.log) :
    ( /\ i # j
      /\ snd.log[i].type = "file_chunk"
      /\ snd.log[j].type = "file_chunk"
      /\ snd.log[i].data.key = snd.log[j].data.key )
    => snd.log[i].nonce # snd.log[j].nonce

\* C16: after the SPAKE2 exchange the two endpoints hold the same key when
\* they were constructed with the same code and different keys when they
\* were constructed with different codes.
C16_SameCodeSameKey ==
  Returned("key_exchange") =>
    ( (call.arg.sender_code = call.arg.receiver_code)
        <=> (call.ret.sender_key = call.ret.receiver_key) )

\* The exchange has run with one code, different random scalars and
\* different messages on the two sides.
C16_Witness ==
  /\ Returned("key_exchange")
  /\ call.arg.sender_code = call.arg.receiver_code
  /\ call.arg.x # call.arg.y
  /\ call.ret.sender_key.first # call.ret.sender_key.second
  /\ call.ret.sender_key = call.ret.receiver_key

\* The places of the events of one type in a pipeline's event stream.
EventsOfType(p, t) == {k \in 1..Len(p.events) : p.events[k].type = t}

\* C17: each role emits at most one ConnectionTypeChanged event; it says
\* "direct" exactly when the role committed to the Direct transport and
\* "relay" exactly when it committed to Relayed; it comes before every
\* TransferProgress event of the run.
C17_OneConnectionTypeEvent ==
  \A p \in {snd, rcv} :
    LET changed == EventsOfType(p, "ConnectionTypeChanged")
    IN  /\ Cardinality(changed) <= 1
        /\ (p.transport = "Direct")
             <=> (\E k \in changed : p.events[k].connection_type = "direct")
        /\ (p.transport = "Relayed")
             <=> (\E k \in changed : p.events[k].connection_type = "relay")
        /\ \A k \in changed : \A j \in EventsOfType(p, "TransferProgress") : k < j

\* Both roles went through the relay, ran to their end, and
\* reported progress after their connection type.
C17_Witness ==
  /\ snd.transport = "Relayed" /\ rcv.transport = "Relayed"
  /\ snd.pc = "done" /\ rcv.pc = "done"
  /\ EventsOfType(snd, "ConnectionTypeChanged") # {}
  /\ EventsOfType(snd, "TransferProgress") # {}
  /\ EventsOfType(rcv, "ConnectionTypeChanged") # {}
  /\ EventsOfType(rcv, "TransferProgress") # {}

\* C18: on both transports a frame whose length header exceeds 256 MiB is
\* rejected with a Transfer error before its payload is decoded, and a
\* complete frame of exactly 256 MiB is not rejected for its length.
C18_OversizedFrameRejected ==
  Returned("recv_peer_message") =>
    LET f == call.arg.frame
    IN  /\ f.header > MaxMessageLen
             => call.ret.error = "Transfer" /\ ~call.ret.decoded
        /\ (f.header = MaxMessageLen /\ f.payload = MaxMessageLen)
             => call.ret.decoded

\* ------------------------------------------------------ the session store

\* Sessions one application starts.
MaxSessions == 3

\* TransferSession::new: a fresh id (its place in the order of creation) and
\* a token that is not cancelled.
TransferSession_new(role) == [role |-> role, cancel_token |-> FALSE]

\* cancel_transfer with a token that flips on every call.
cancel_transfer_toggles(store, session_id) ==
  IF session_id \in DOMAIN store
    THEN [ret |-> "Ok",
          sessions |-> [store EXCEPT ![session_id].cancel_token = ~@]]
    ELSE [ret |-> "Err", sessions |-> store]

\* cancel_transfer: session.cancel() for a session in the store, an error
\* for any other id.
cancel_transfer(store, session_id) ==
  IF session_id \in DOMAIN store
    THEN [ret |-> "Ok",
          sessions |-> [store EXCEPT ![session_id].cancel_token = TRUE]]
    ELSE [ret |-> "Err", sessions |-> store]

InitSessions ==
  /\ files = <<>>
  /\ snd = [pc |-> "idle"]
  /\ rcv = [pc |-> "idle"]
  /\ net = [quic |-> "idle"]
  /\ disk = <<>>
  /\ adv = 0
  /\ call = NoCall
  /\ sessions = NoSessions
  /\ ui = NoUi

\* start_send / start_receive: the new session is put into the store.
StartSession(role) ==
  /\ Len(sessions) < MaxSessions
  /\ sessions' = Append(sessions, TransferSession_new(role))
  /\ UNCHANGED <<files, snd, rcv, net, disk, adv, call, ui>>

\* The UI calls cancel_transfer(session_id).
CancelTransfer(session_id) ==
  LET r == cancel_transfer(sessions, session_id)
  IN  /\ sessions' = r.sessions
      /\ call' = [fn |-> "cancel_transfer", arg |-> session_id,
                  done |-> TRUE, ret |-> r.ret]
      /\ UNCHANGED <<files, snd, rcv, net, disk, adv, ui>>

NextSessions ==
  \/ \E role \in {"Sender", "Receiver"} : StartSession(role)
  \/ \E session_id \in 1..(MaxSessions + 1) : CancelTransfer(session_id)

SpecSessions == InitSessions /\ [][NextSessions]_vars

\* C19: a session's token, once cancelled, stays cancelled in every later
\* state; cancel_transfer of a session that is already cancelled changes
\* nothing; cancel_transfer of an id that is not in the store returns an
\* error and leaves every session as it was.
C19_CancelIsMonotonic ==
  [][ /\ \A id \in DOMAIN sessions :
           sessions[id].cancel_token
             => (id \in DOMAIN sessions' /\ sessions'[id].cancel_token)
      /\ (call' # call /\ call'.fn = "cancel_transfer")
           => IF call'.arg \in DOMAIN sessions
                THEN /\ call'.ret = "Ok"
                     /\ sessions'[call'.arg].cancel_token
                     /\ sessions[call'.arg].cancel_token => sessions' = sessions
                ELSE /\ call'.ret = "Err"
                     /\ sessions' = sessions ]_vars

\* Two sessions were cancelled, then cancel_transfer was called with an id
\* that is not in the store: it returned an error and both tokens still
\* read cancelled.
C19_Witness ==
  /\ Len(sessions) = 2
  /\ \A id \in DOMAIN sessions : sessions[id].cancel_token
  /\ call.fn = "cancel_transfer"
  /\ call.arg \notin DOMAIN sessions
  /\ call.ret = "Err"

\* C20: a pipeline run that ended in failure has reported exactly one Error
\* event and no TransferComplete event; a run that ended in success has
\* reported exactly one TransferComplete event and no Error event.
C20_OneTerminalEvent ==
  \A p \in {snd, rcv} :
    (p.pc = "done" /\ p.result # "none") =>
      IF p.result = "Ok"
        THEN /\ Cardinality(EventsOfType(p, "TransferComplete")) = 1
             /\ EventsOfType(p, "Error") = {}
        ELSE /\ Cardinality(EventsOfType(p, "Error")) = 1
             /\ EventsOfType(p, "TransferComplete") = {}

\* ------------------------------------------------ the way of events to the UI

\* Events one pipeline sends on progress_tx before it ends.
MaxEvents == 3

\* The kinds of event a pipeline sends on progress_tx while it runs.
PipelineEvents ==
  {[type |-> t] : t \in {"StateChanged", "ConnectionTypeChanged",
                         "FileOffer", "TransferProgress"}}

\* start_send / start_receive have spawned the forwarding task and the
\* pipeline task; nothing was sent yet.
InitUi ==
  /\ files = <<>>
  /\ snd = [pc |-> "idle"]
  /\ rcv = [pc |-> "idle"]
  /\ net = [quic |-> "idle"]
  /\ disk = <<>>
  /\ adv = 0
  /\ call = NoCall
  /\ sessions = NoSessions
  /\ ui = [pc |-> "running", emitted |-> <<>>, chan |-> <<>>, seen |-> <<>>]

\* The pipeline sends an event on the unbounded channel progress_tx.
PipelineEmits(e) ==
  /\ ui.pc = "running"
  /\ Len(ui.emitted) < MaxEvents
  /\ ui' = [ui EXCEPT !.emitted = Append(@, e), !.chan = Append(@, e)]
  /\ UNCHANGED <<files, snd, rcv, net, disk, adv, call, sessions>>

\* The pipeline returns Ok(()): TransferComplete was its last send on the
\* channel; the pipeline task emits nothing itself.
PipelineSucceeds ==
  /\ ui.pc = "running"
  /\ ui' = [ui EXCEPT !.pc = "ok",
                      !.emitted = Append(@, [type |-> "TransferComplete"]),
                      !.chan = Append(@, [type |-> "TransferComplete"])]
  /\ UNCHANGED <<files, snd, rcv, net, disk, adv, call, sessions>>

\* The pipeline returns Err(e): the pipeline task emits the Error event to
\* the UI itself, not through the channel.
PipelineFails ==
  /\ ui.pc = "running"
  /\ ui' = [ui EXCEPT !.pc = "failed",
                      !.emitted = Append(@, [type |-> "Error"]),
                      !.seen = Append(@, [type |-> "Error"])]
  /\ UNCHANGED <<files, snd, rcv, net, disk, adv, call, sessions>>

\* The forwarding task takes the next event from progress_rx and emits it
\* to the UI.
ForwardEvent ==
  /\ ui.chan # <<>>
  /\ ui' = [ui EXCEPT !.chan = Tail(@), !.seen = Append(@, Head(ui.chan))]
  /\ UNCHANGED <<files, snd, rcv, net, disk, adv, call, sessions>>

NextUi ==
  \/ \E e \in PipelineEvents : PipelineEmits(e)
  \/ PipelineSucceeds
  \/ PipelineFails
  \/ ForwardEvent

SpecUi == InitUi /\ [][NextUi]_vars

\* C21: the UI observes the events of a session in the order in which they
\* were emitted: what it has observed once the channel is drained is the
\* emitted sequence, the terminal Error event last.
C21_UiSeesEmissionOrder ==
  (ui.pc # "none" /\ ui.chan = <<>>) => ui.seen = ui.emitted

\* C22: when the receive pipeline has ended because of a cancel, its own or
\* the sender's, after the target files were created, no target file that
\* was not verified is left in the save directory.
C22_CancelRemovesPartialFiles ==
  ( /\ rcv.pc = "done"
    /\ rcv.exit \in {"cancel", "sender cancelled"} )
  => \A k \in 1..Len(rcv.reassemblers) :
       rcv.reassemblers[k].open => ~disk[rcv.reassemblers[k].path].exists

\* C23: for every code generate() can produce, parse(to_code_string(code))
\* succeeds and yields the same digit, word1 and word2.
C23_CodeRoundTrip ==
  Returned("code_roundtrip") =>
    /\ call.ret.ok
    /\ call.ret.digit = call.arg.digit
    /\ call.ret.word1 = call.arg.word1
    /\ call.ret.word2 = call.arg.word2

\* The round trip was run on a code with digit 9 and two different words.
C23_Witness ==
  /\ Returned("code_roundtrip")
  /\ call.arg.digit = 9
  /\ call.arg.word1 # call.arg.word2
  /\ call.ret.ok

\* The files expand_directory has to return for a tree: the regular files
\* with no name on their path that starts with '.' or is a junk name, each
\* with the relative path "<prefix>/<directories>/<file name>".
ExpectedFiles(tree) ==
  {[path |-> e.path, relative |-> JoinSlash(<<ExpandPrefix>> \o e.path)] :
     e \in {f \in tree :
              /\ f.kind = "file"
              /\ \A i \in 1..Len(f.path) :
                   /\ f.path[i][1] # "."
                   /\ f.path[i] \notin {<<"Thumbs.db">>, <<"__MACOSX">>}}}

\* C24: expand_directory terminates on every directory tree, and what it
\* returns is exactly the visible regular files of the tree, each once, with
\* its relative path below the prefix.
C24_ExpandDirectory ==
  /\ [](Returned("expand_directory") =>
          /\ Range(call.ret.result) = ExpectedFiles(call.arg)
          /\ Len(call.ret.result) = Cardinality(ExpectedFiles(call.arg)))
  /\ (call.fn = "expand_directory") ~> call.done

\* expand_directory returned two files from two different depths of a tree
\* that also holds a hidden directory with a file in it and a junk file.
C24_Witness ==
  /\ Returned("expand_directory")
  /\ \E r1, r2 \in Range(call.ret.result) : Len(r1.path) = 2 /\ Len(r2.path) = 3
  /\ \E e \in call.arg :
       Len(e.path) = 2 /\ e.path[1] = <<".", "x">> /\ e.kind = "file"
  /\ [path |-> <<<<"a">>, <<"Thumbs.db">>>>, kind |-> "file"] \in call.arg

\* ------------------------------------------ C25: the sender's race outcome

\* What the sender has put on its signaling socket, by kind.
SenderSent == net.sent["sender"]

\* C25: once the sender has left the race it has committed to exactly one
\* outcome: the Direct transport with signaling disconnected and no
\* request_relay, or the Relayed transport with request_relay sent once as
\* the first thing on the socket and no disconnect, or failure Cancelled with
\* signaling disconnected and no transport.
C25_RaceCommitsOnce ==
  snd.pc # "race" =>
    \/ /\ snd.transport = "Direct"
       /\ SenderSent = <<"disconnect">>
    \/ /\ snd.transport = "Relayed"
       /\ Head(SenderSent) = "request_relay"
       /\ Count(SenderSent, "request_relay") = 1
       /\ Count(SenderSent, "disconnect") = 0
    \/ /\ snd.transport = "none"
       /\ snd.result = "Cancelled"
       /\ SenderSent = <<"disconnect">>

\* --------------------------------- C26: the address the receiver dials

\* C26: resolve_peer_addr gives local_ip:local_port when local_ip is not
\* empty and local_port > 0, otherwise public_ip:public_port when public_ip
\* is not empty and public_port > 0, and otherwise no address (the receiver
\* then goes to the relay without a QUIC attempt).
C26_DialsPreferredAddress ==
  Returned("resolve_peer_addr") =>
    LET p == call.arg
        r == call.ret
    IN  IF p.local_ip # <<>> /\ p.local_port > 0
          THEN r.ok /\ r.ip = p.local_ip /\ r.port = p.local_port
        ELSE IF p.public_ip # <<>> /\ p.public_port > 0
          THEN r.ok /\ r.ip = p.public_ip /\ r.port = p.public_port
        ELSE ~r.ok

\* ------------------------------------------- establishment (steps 2 to 5)

\* Most messages of its own the rendezvous server sends during one
\* establishment besides peer_joined.
MaxNoise == 2

Sides == {"sender", "receiver"}

\* SignalMessage values on the signaling socket.
Signal(type, message) == [type |-> type, message |-> message]

\* A message of that type whose message field is absent.
Bare(type) == [type |-> type]

HasPayload(m) == "message" \in DOMAIN m

NoKeyYet == [pw |-> "none", first |-> 0, second |-> 0, K |-> 0]

\* quic.cert_fingerprint() of each endpoint's certificate.
CertFingerprint(x) == IF x = "sender" THEN "fp_sender" ELSE "fp_receiver"

\* Both endpoints are connected to the server and about to register; each
\* has its code and the random scalar KeyExchange::new will draw.
InitEstablish ==
  /\ files = <<>>
  /\ \E a \in KeyExchangeInputs :
       /\ a.x \in {1, 2} /\ a.y \in {1, 2}
       /\ snd = [pc |-> "register", code |-> a.sender_code, x |-> a.x,
                 outbound |-> 0, key |-> NoKeyYet, peer_fingerprint |-> "none",
                 transport |-> "none", quic_peer |-> "none",
                 result |-> "none", steps |-> <<>>]
       /\ rcv = [pc |-> "register", code |-> a.receiver_code, x |-> a.y,
                 outbound |-> 0, key |-> NoKeyYet, peer_fingerprint |-> "none",
                 transport |-> "none", quic_peer |-> "none",
                 result |-> "none", steps |-> <<>>]
  /\ net = [up |-> [x \in Sides |-> <<>>], down |-> [x \in Sides |-> <<>>],
            sent |-> [x \in Sides |-> <<>>], registered |-> {}]
  /\ disk = <<>>
  /\ adv = 0
  /\ call = NoCall
  /\ sessions = NoSessions
  /\ ui = NoUi

Endpoint(x) == IF x = "sender" THEN snd ELSE rcv

Becomes(x, e) ==
  IF x = "sender" THEN snd' = e /\ UNCHANGED rcv
  ELSE rcv' = e /\ UNCHANGED snd

\* send_json: the message goes up the socket.
SendJson(n, x, m) ==
  [n EXCEPT !.up[x] = Append(@, m), !.sent[x] = Append(@, m.type)]

\* A ? on a signaling call: the pipeline returns the error.
EstablishFails(x, result) ==
  /\ Becomes(x, [Endpoint(x) EXCEPT !.pc = "done", !.result = result])
  /\ net' = [net EXCEPT !.down[x] = Tail(@)]

\* Step 2: register.
Register(x) ==
  /\ Endpoint(x).pc = "register"
  /\ net' = SendJson(net, x, Signal("register", x))
  /\ Becomes(x, [Endpoint(x) EXCEPT !.pc = "wait_for_peer",
                                    !.steps = Append(@, "register")])
  /\ UNCHANGED <<files, disk, adv, call, sessions, ui>>

\* wait_for_peer failing on a type it should skip.
WaitForPeer_fails_on_other(x) ==
  /\ Endpoint(x).pc = "wait_for_peer"
  /\ net.down[x] # <<>>
  /\ LET m == Head(net.down[x])
         e == Endpoint(x)
         kx == KeyExchange_new(e.code, e.x)
     IN  CASE m.type = "peer_joined" /\ ~HasPayload(m) ->
                EstablishFails(x, "WebSocket")
           [] m.type = "peer_joined" /\ HasPayload(m) ->
                /\ net' = SendJson([net EXCEPT !.down[x] = Tail(@)], x,
                                   Signal("spake2", Base64Encode(kx.outbound_msg)))
                /\ Becomes(x, [e EXCEPT !.pc = "exchange_spake2",
                                        !.outbound = kx.outbound_msg,
                                        !.steps = @ \o <<"peer_joined", "spake2">>])
           [] m.type = "error" -> EstablishFails(x, "WebSocket")
           [] OTHER -> EstablishFails(x, "WebSocket")
  /\ UNCHANGED <<files, disk, adv, call, sessions, ui>>

\* Step 3, wait_for_peer, one turn of its loop; on peer_joined step 4
\* starts: KeyExchange::new and the send of exchange_spake2.
WaitForPeer(x) ==
  /\ Endpoint(x).pc = "wait_for_peer"
  /\ net.down[x] # <<>>
  /\ LET m == Head(net.down[x])
         e == Endpoint(x)
         kx == KeyExchange_new(e.code, e.x)
     IN  CASE m.type = "peer_joined" /\ ~HasPayload(m) ->
                EstablishFails(x, "WebSocket")
           [] m.type = "peer_joined" /\ HasPayload(m) ->
                /\ net' = SendJson([net EXCEPT !.down[x] = Tail(@)], x,
                                   Signal("spake2", Base64Encode(kx.outbound_msg)))
                /\ Becomes(x, [e EXCEPT !.pc = "exchange_spake2",
                                        !.outbound = kx.outbound_msg,
                                        !.steps = @ \o <<"peer_joined", "spake2">>])
           [] m.type = "error" -> EstablishFails(x, "WebSocket")
           [] OTHER -> /\ net' = [net EXCEPT !.down[x] = Tail(@)]
                       /\ UNCHANGED <<snd, rcv>>
  /\ UNCHANGED <<files, disk, adv, call, sessions, ui>>

\* ChunkEncryptor::encrypt_one of the fingerprint, packed and encoded.
SealedFingerprint(x, key) ==
  Base64Encode(encrypt_chunk([nonce_prefix |-> 0, counter |-> 0], key,
                             <<CertFingerprint(x)>>))

\* Step 4, the receive loop of exchange_spake2, one turn; on spake2 the key
\* is derived by finish and step 5 starts: the send of
\* exchange_cert_fingerprint.
ExchangeSpake2(x) ==
  /\ Endpoint(x).pc = "exchange_spake2"
  /\ net.down[x] # <<>>
  /\ LET m == Head(net.down[x])
         e == Endpoint(x)
         kx == [code |-> e.code, x |-> e.x, outbound_msg |-> e.outbound]
         key == KeyExchange_finish(kx, Base64Decode(m.message))
     IN  CASE m.type = "spake2" /\ ~HasPayload(m) ->
                EstablishFails(x, "WebSocket")
           [] m.type = "spake2" /\ HasPayload(m) ->
                /\ net' = SendJson([net EXCEPT !.down[x] = Tail(@)], x,
                                   Signal("cert_fingerprint", SealedFingerprint(x, key)))
                /\ Becomes(x, [e EXCEPT !.pc = "exchange_cert_fingerprint",
                                        !.key = key,
                                        !.steps = @ \o <<"key", "cert_fingerprint">>])
           [] m.type = "error" -> EstablishFails(x, "WebSocket")
           [] OTHER -> /\ net' = [net EXCEPT !.down[x] = Tail(@)]
                       /\ UNCHANGED <<snd, rcv>>
  /\ UNCHANGED <<files, disk, adv, call, sessions, ui>>

\* The receive loop of exchange_cert_fingerprint leaving on a message it
\* should ignore.
ExchangeCertFingerprint_leaves_on_other(x) ==
  /\ Endpoint(x).pc = "exchange_cert_fingerprint"
  /\ net.down[x] # <<>>
  /\ LET m == Head(net.down[x])
         e == Endpoint(x)
         opened == decrypt_chunk(e.key, Base64Decode(m.message).data,
                                 Base64Decode(m.message).nonce)
     IN  CASE m.type = "cert_fingerprint" /\ ~HasPayload(m) ->
                EstablishFails(x, "WebSocket")
           [] m.type = "cert_fingerprint" /\ HasPayload(m) ->
                IF opened.ok
                  THEN /\ net' = [net EXCEPT !.down[x] = Tail(@)]
                       /\ Becomes(x, [e EXCEPT !.pc = "race",
                                               !.peer_fingerprint = opened.pt[1],
                                               !.steps = Append(@, "peer_fingerprint")])
                  ELSE EstablishFails(x, "Crypto")
           [] m.type = "error" -> EstablishFails(x, "WebSocket")
           [] OTHER -> /\ net' = [net EXCEPT !.down[x] = Tail(@)]
                       /\ Becomes(x, [e EXCEPT !.pc = "race"])
  /\ UNCHANGED <<files, disk, adv, call, sessions, ui>>

\* Step 5, the receive loop of exchange_cert_fingerprint, one turn: the
\* peer's fingerprint is decoded and opened with the key.
ExchangeCertFingerprint(x) ==
  /\ Endpoint(x).pc = "exchange_cert_fingerprint"
  /\ net.down[x] # <<>>
  /\ LET m == Head(net.down[x])
         e == Endpoint(x)
         opened == decrypt_chunk(e.key, Base64Decode(m.message).data,
                                 Base64Decode(m.message).nonce)
     IN  CASE m.type = "cert_fingerprint" /\ ~HasPayload(m) ->
                EstablishFails(x, "WebSocket")
           [] m.type = "cert_fingerprint" /\ HasPayload(m) ->
                IF opened.ok
                  THEN /\ net' = [net EXCEPT !.down[x] = Tail(@)]
                       /\ Becomes(x, [e EXCEPT !.pc = "race",
                                               !.peer_fingerprint = opened.pt[1],
                                               !.steps = Append(@, "peer_fingerprint")])
                  ELSE EstablishFails(x, "Crypto")
           [] m.type = "error" -> EstablishFails(x, "WebSocket")
           [] OTHER -> /\ net' = [net EXCEPT !.down[x] = Tail(@)]
                       /\ UNCHANGED <<snd, rcv>>
  /\ UNCHANGED <<files, disk, adv, call, sessions, ui>>

\* The fingerprint of the certificate the other end of a QUIC connection
\* presented. The dialer's verifier answers Ok for every certificate, so
\* whoever listens at the dialled address gets through; the listener asks
\* for no client certificate, so its peer presents none.
QuicPeerCertificates(x) ==
  IF x = "receiver" THEN {CertFingerprint("sender"), "fp_other"} ELSE {"none"}

\* Steps 6 and 7 seen from here: the race ends and a transport is built;
\* peer_fingerprint is not looked at.
RaceBuildsTransport(x, kind) ==
  /\ Endpoint(x).pc = "race"
  /\ \E cert \in (IF kind = "Direct" THEN QuicPeerCertificates(x) ELSE {"none"}) :
       Becomes(x, [Endpoint(x) EXCEPT !.pc = "transfer", !.transport = kind,
                                      !.quic_peer = cert,
                                      !.steps = Append(@, "transport")])
  /\ UNCHANGED <<files, net, disk, adv, call, sessions, ui>>

\* The rendezvous server: it notes a registration and, once both roles are
\* there, tells both with peer_joined.
ServerRegisters(x) ==
  /\ net.up[x] # <<>>
  /\ Head(net.up[x]).type = "register"
  /\ LET both == net.registered \cup {x} = Sides
         told(q) == IF both THEN Append(q, Signal("peer_joined", "peer_info")) ELSE q
     IN  net' = [net EXCEPT !.up[x] = Tail(@),
                            !.registered = @ \cup {x},
                            !.down = [y \in Sides |-> told(net.down[y])]]
  /\ UNCHANGED <<files, snd, rcv, disk, adv, call, sessions, ui>>

\* The rendezvous server passes spake2 and cert_fingerprint to the other side.
ServerPasses(x) ==
  /\ net.up[x] # <<>>
  /\ Head(net.up[x]).type \in {"spake2", "cert_fingerprint"}
  /\ net' = [net EXCEPT !.up[x] = Tail(@),
                        !.down[Other(x)] = Append(@, Head(net.up[x]))]
  /\ UNCHANGED <<files, snd, rcv, disk, adv, call, sessions, ui>>

\* The rendezvous server sends a message of its own: an error, a type the
\* client does not wait for, or one of the awaited types without its message
\* field (peer_info for peer_joined).
NoiseMessages ==
  {Signal("error", "e"), Signal("pong", "")}
    \cup {Bare(t) : t \in {"peer_joined", "spake2", "cert_fingerprint"}}

ServerNoise(x, m) ==
  /\ adv < MaxNoise
  /\ Endpoint(x).pc \in {"wait_for_peer", "exchange_spake2", "exchange_cert_fingerprint"}
  /\ adv' = adv + 1
  /\ net' = [net EXCEPT !.down[x] = Append(@, m)]
  /\ UNCHANGED <<files, snd, rcv, disk, call, sessions, ui>>

NextEstablish ==
  \E x \in Sides :
    \/ Register(x)
    \/ WaitForPeer(x)
    \/ ExchangeSpake2(x)
    \/ ExchangeCertFingerprint(x)
    \/ \E kind \in {"Direct", "Relayed"} : RaceBuildsTransport(x, kind)
    \/ ServerRegisters(x)
    \/ ServerPasses(x)
    \/ \E m \in NoiseMessages : ServerNoise(x, m)

SpecEstablish == InitEstablish /\ [][NextEstablish]_vars

IsPrefix(s, t) == Len(s) <= Len(t) /\ SubSeq(t, 1, Len(s)) = s

\* The steps of establishment in the order of the pipeline.
EstablishOrder ==
  <<"register", "peer_joined", "spake2", "key", "cert_fingerprint",
    "peer_fingerprint", "transport">>

\* C27: on both roles the establishment steps happen in the fixed order
\* register sent, peer_joined received, spake2 sent, key derived,
\* cert_fingerprint sent, peer fingerprint received and opened, transport;
\* register, spake2 and cert_fingerprint are each sent once, in that order;
\* cert_fingerprint is sent only with a derived key; no transport is built
\* before the peer's fingerprint has been received.
C27_EstablishmentOrder ==
  \A x \in Sides :
    /\ IsPrefix(Endpoint(x).steps, EstablishOrder)
    /\ IsPrefix(net.sent[x], <<"register", "spake2", "cert_fingerprint">>)
    /\ "cert_fingerprint" \in Range(net.sent[x]) => Endpoint(x).key # NoKeyYet
    /\ Endpoint(x).transport # "none" =>
         Endpoint(x).peer_fingerprint = CertFingerprint(Other(x))

C27_Witness ==
  /\ snd.steps = EstablishOrder /\ rcv.steps = EstablishOrder
  /\ snd.transport = "Relayed" /\ rcv.transport = "Relayed"
  /\ adv = MaxNoise

\* ------------------------------------ run_send against an arbitrary peer

\* What a peer that is not run_receive can write to the sender.
ReplyMessages ==
  {FileAccept, FileDecline, Cancel(<<"x">>), Ping}
    \cup {FileVerified(i) : i \in 0..MaxFiles}

\* run_send is entered over a direct transport whose peer is not run_receive.
InitReplies ==
  /\ files \in SenderInputs
  /\ snd = [pc |-> "send_offer", result |-> "none", transport |-> "Direct",
            key |-> GoodKey, cancel |-> FALSE,
            idx |-> 0, off |-> 0,
            enc |-> [nonce_prefix |-> 0, counter |-> 0],
            checksum |-> ChecksumNew, chunk_index |-> 0,
            bytes |-> 0, events |-> <<ConnectionTypeChanged("direct")>>,
            log |-> <<>>, seen |-> <<>>]
  /\ rcv = [pc |-> "peer", transport |-> "Direct"]
  /\ net = [quic |-> "both_up", bi_open |-> FALSE, fin |-> FALSE,
            s2r |-> <<>>, r2s |-> <<>>,
            up |-> [x \in {"sender", "receiver"} |-> <<>>],
            down |-> [x \in {"sender", "receiver"} |-> <<>>],
            sent |-> [x \in {"sender", "receiver"} |-> <<>>]]
  /\ disk = [p \in DiskPaths |-> NoFile]
  /\ adv = 0
  /\ call = NoCall
  /\ sessions = NoSessions
  /\ ui = NoUi

\* The peer writes one more message when the sender has read the last.
ReplySends(m) ==
  /\ rcv.pc = "peer"
  /\ snd.pc # "done"
  /\ adv < MaxInject
  /\ ~HasMessage(net, "sender", snd.transport)
  /\ net' = Transmit(net, "receiver", rcv.transport, m)
  /\ adv' = adv + 1
  /\ UNCHANGED <<files, snd, rcv, disk, call, sessions, ui>>

\* The peer closes the connection.
ReplyCloses ==
  /\ rcv.pc = "peer"
  /\ rcv' = [rcv EXCEPT !.pc = "done"]
  /\ UNCHANGED <<files, snd, net, disk, adv, call, sessions, ui>>

RunSend ==
  \/ SenderSendOffer \/ SenderReadsAnswer
  \/ SenderSendsChunk \/ SenderChunkCancelled \/ SenderSendsComplete
  \/ SenderReadsVerified \/ SenderTransportFails

NextReplies ==
  \/ \E m \in ReplyMessages : ReplySends(m)
  \/ ReplyCloses
  \/ RunSend
  \/ CancelSender

SpecReplies == InitReplies /\ [][NextReplies]_vars

\* The peer messages the sender has written, by type.
SentOfType(t) == {k \in 1..Len(snd.log) : snd.log[k].type = t}

\* C28: the sender's first peer message is file_offer and it sends it once;
\* it sends no file_chunk, file_complete or transfer_complete unless the
\* first message it read was file_accept; when the first message it read is
\* neither file_accept nor file_decline it has returned a Transfer error.
C28_OfferThenAccept ==
  /\ snd.log # <<>> => snd.log[1].type = "file_offer"
  /\ Cardinality(SentOfType("file_offer")) <= 1
  /\ SentOfType("file_chunk") \cup SentOfType("file_complete")
       \cup SentOfType("transfer_complete") # {}
       => snd.seen # <<>> /\ snd.seen[1].type = "file_accept"
  /\ (snd.seen # <<>> /\ snd.seen[1].type \notin {"file_accept", "file_decline"})
       => snd.pc = "done" /\ snd.result = "Transfer"

C28_Witness ==
  /\ snd.pc = "done"
  /\ snd.seen # <<>> /\ snd.seen[1].type = "file_accept"
  /\ SentOfType("transfer_complete") # {}
  /\ SentOfType("file_chunk") # {}

C28_WitnessUnexpected ==
  snd.seen = <<FileVerified(0)>> /\ snd.result = "Transfer"

\* The peer messages the sender has written that carry a file index.
Indexed(k) == snd.log[k].type \in {"file_chunk", "file_complete"}

\* The file_verified messages the sender has read, by the index they carry.
VerifiedRead == {snd.seen[k].file_index :
                   k \in {j \in 1..Len(snd.seen) : snd.seen[j].type = "file_verified"}}

\* C29: the sender handles files in index order and one at a time:
\* file_complete{i} is written once, after every chunk of file i; nothing
\* is written for file i+1, and no transfer_complete, unless file_verified
\* for file i has been read; transfer_complete is written once and is the
\* last peer message.
C29_OneFileAtATime ==
  /\ \A j, k \in 1..Len(snd.log) :
       (j < k /\ Indexed(j) /\ Indexed(k)) =>
         /\ snd.log[j].file_index <= snd.log[k].file_index
         /\ snd.log[j].type = "file_complete" =>
              snd.log[j].file_index < snd.log[k].file_index
  /\ \A k \in 1..Len(snd.log) :
       /\ (Indexed(k) /\ snd.log[k].file_index > 0) =>
            (snd.log[k].file_index - 1) \in VerifiedRead
       /\ snd.log[k].type = "transfer_complete" =>
            /\ k = Len(snd.log)
            /\ \A i \in 0..(Len(files) - 1) : i \in VerifiedRead

\* C30: the message the sender reads as the answer for file i (the message
\* after the answer to the offer and i earlier answers) lets it go on only
\* when it is file_verified with file_index i; with anything else the
\* sender has returned a Transfer error.
C30_VerifiedIndexMatches ==
  \A k \in 2..Len(snd.seen) :
    \/ snd.seen[k] = FileVerified(k - 2)
    \/ k = Len(snd.seen) /\ snd.pc = "done" /\ snd.result = "Transfer"

\* ------------------------------------------- C31: the sender's cancel check

\* C31: when the sender's token is set and a chunk has been read and is about
\* to be sent, the sender's next step writes cancel instead of the chunk and
\* returns Cancelled; a sender that has returned writes nothing more, so no
\* later chunk, file_complete or transfer_complete follows the cancel.
C31_CancelledChunkNotSent ==
  [][/\ ( /\ snd.pc = "chunks" /\ snd.cancel /\ Remaining(snd) > 0
          /\ snd' # snd )
          => /\ snd'.pc = "done" /\ snd'.result = "Cancelled"
             /\ snd'.log = Append(snd.log, Cancel("cancelled by sender"))
     /\ snd.pc = "done" => snd'.log = snd.log]_vars

C31_Witness ==
  /\ snd.pc = "done" /\ snd.result = "Cancelled"
  /\ snd.log # <<>>
  /\ snd.log[Len(snd.log)] = Cancel("cancelled by sender")
  /\ Cardinality({k \in 1..Len(snd.log) : snd.log[k].type = "cancel"}) = 1
  /\ \E k \in 1..Len(snd.log) : snd.log[k].type = "file_chunk"

\* ---------------------------------- C32: the receiver's transferring state

\* C32: the receiver has emitted StateChanged{transferring} only if it has
\* sent file_accept.
C32_TransferringAfterAccept ==
  (\E k \in 1..Len(rcv.events) : rcv.events[k] = StateChanged("transferring"))
    => \E j \in 1..Len(rcv.log) : rcv.log[j] = FileAccept

\* ------------------------------------------------- C33: the sender's chunks

\* The positions before k in the sender's log that hold a chunk of the file
\* the chunk at k belongs to.
EarlierChunks(k) ==
  {j \in 1..(k - 1) : /\ snd.log[j].type = "file_chunk"
                      /\ snd.log[j].file_index = snd.log[k].file_index}

\* The plaintext bytes carried by the chunks at the positions in S.
RECURSIVE PlainBytes(_)
PlainBytes(S) ==
  IF S = {} THEN 0
  ELSE LET j == CHOOSE x \in S : TRUE
       IN  Len(snd.log[j].data.pt) + PlainBytes(S \ {j})

\* C33: the chunks of a file carry chunk_index 0, 1, 2, ... in send order;
\* every chunk carries a full ChunkSize of plaintext (ciphertext ChunkSize
\* plus the tag) unless it is the last of the file, which carries what is
\* left, between 1 and ChunkSize bytes; an empty file gives no chunk.
C33_ChunksAreFull ==
  \A k \in 1..Len(snd.log) :
    snd.log[k].type = "file_chunk" =>
      LET size == Len(files[snd.log[k].file_index + 1].content)
          before == PlainBytes(EarlierChunks(k))
      IN  /\ snd.log[k].chunk_index = Cardinality(EarlierChunks(k))
          /\ Len(snd.log[k].data.pt) = Min(ChunkSize, size - before)
          /\ Len(snd.log[k].data.pt) >= 1
          /\ DataLen(snd.log[k].data) = Len(snd.log[k].data.pt) + TagLen

\* ---------------------------------------------- C34: the progress counters

\* The TransferProgress events among events, in the order of emission.
ProgressOf(events) == SelectSeq(events, LAMBDA e : e.type = "TransferProgress")

\* C34: in the TransferProgress events of either side bytes_transferred is
\* at most bytes_total and never decreases; after a successful transfer the
\* last of them has bytes_transferred equal to bytes_total.
ProgressIsSound(p, finished) ==
  /\ \A k \in 1..Len(p) : p[k].bytes_transferred <= p[k].bytes_total
  /\ \A k \in 1..(Len(p) - 1) :
       p[k].bytes_transferred <= p[k + 1].bytes_transferred
  /\ (finished /\ p # <<>>) =>
       p[Len(p)].bytes_transferred = p[Len(p)].bytes_total

C34_ProgressWithinTotal ==
  /\ ProgressIsSound(ProgressOf(snd.events), snd.result = "Ok")
  /\ ProgressIsSound(ProgressOf(rcv.events), rcv.result = "Ok")

\* ------------------------------------------ C35: the signaling wait loops

\* The type each wait loop returns on.
Awaited(pc) ==
  CASE pc = "wait_for_peer" -> "peer_joined"
    [] pc = "exchange_spake2" -> "spake2"
    [] pc = "exchange_cert_fingerprint" -> "cert_fingerprint"

InWaitLoop(x) ==
  Endpoint(x).pc \in {"wait_for_peer", "exchange_spake2", "exchange_cert_fingerprint"}

\* This step is a turn of x's wait loop: recv_json took the first message.
LoopReads(x) ==
  /\ InWaitLoop(x)
  /\ net.down[x] # <<>>
  /\ net'.down[x] = Tail(net.down[x])

\* A message of the awaited type the loop cannot use: its message field is
\* absent, or it is a cert_fingerprint that does not open under the key.
Unusable(x, m) ==
  \/ ~HasPayload(m)
  \/ /\ m.type = "cert_fingerprint"
     /\ ~decrypt_chunk(Endpoint(x).key, Base64Decode(m.message).data,
                       Base64Decode(m.message).nonce).ok

\* C35 as stated: a message that is neither of the awaited type nor error is
\* skipped and changes nothing; the loop ends successfully only on a message
\* of the awaited type; error is the only type that makes it fail.
C35_OnlyErrorFails ==
  [][\A x \in Sides :
       LoopReads(x) =>
         LET m == Head(net.down[x])
             awaited == Awaited(Endpoint(x).pc)
         IN  /\ m.type \notin {awaited, "error"} => Endpoint(x)' = Endpoint(x)
             /\ Endpoint(x)'.pc \notin {Endpoint(x).pc, "done"} => m.type = awaited
             /\ Endpoint(x)'.pc = "done" <=> m.type = "error"]_vars

\* C35 amended: a message that is neither of the awaited type nor error is
\* skipped and changes nothing; the loop ends successfully only on a message
\* of the awaited type; it fails exactly on error and on a message of the
\* awaited type that it cannot use.
C35_ErrorOrUnusableFails ==
  [][\A x \in Sides :
       LoopReads(x) =>
         LET m == Head(net.down[x])
             awaited == Awaited(Endpoint(x).pc)
         IN  /\ m.type \notin {awaited, "error"} => Endpoint(x)' = Endpoint(x)
             /\ Endpoint(x)'.pc \notin {Endpoint(x).pc, "done"} => m.type = awaited
             /\ Endpoint(x)'.pc = "done" <=>
                  \/ m.type = "error"
                  \/ m.type = awaited /\ Unusable(x, m)]_vars

\* Both endpoints came through their three loops, and every message the
\* server sent of its own was read on the way.
C35_Witness ==
  /\ snd.pc = "race" /\ rcv.pc = "race"
  /\ adv = MaxNoise
  /\ net.down["sender"] = <<>> /\ net.down["receiver"] = <<>>

\* ------------------------------------------------ C36: the accept decision

\* This step is the first accept_transfer of the session.
FirstAcceptCall == rcv.accept_tx /\ ~rcv'.accept_tx

\* This step takes the pipeline out of the select on the accept oracle.
LeavesAcceptWait == rcv.pc = "wait_accept" /\ rcv'.pc # "wait_accept"

\* The answer the pipeline sends for a delivered decision.
AnswerFor(decision) == IF decision = "yes" THEN FileAccept ELSE FileDecline

\* C36 as stated: the first accept_transfer removes the pending entry and
\* delivers its answer; every later accept_transfer is an error and leaves
\* the decision as it is; a decision delivered before the pipeline reaches
\* the accept wait is the one the pipeline applies there.
C36_DecisionOnce ==
  [][/\ FirstAcceptCall
          => rcv'.accept # "pending" /\ rcv'.accept_result = "Ok"
     /\ ~rcv.accept_tx
          => /\ rcv'.accept = rcv.accept
             /\ rcv'.accept_result \in {rcv.accept_result, "no pending accept"}
     /\ (LeavesAcceptWait /\ rcv.accept # "pending")
          => rcv'.log = Append(rcv.log, AnswerFor(rcv.accept))]_vars

\* C36 amended: the first accept_transfer removes the pending entry; it
\* delivers its answer when the pipeline still holds the receiving end and
\* is the error "channel closed", delivering nothing, when it does not;
\* every later accept_transfer is an error and leaves the decision as it
\* is; a delivered decision is the one the pipeline applies at the accept
\* wait unless the cancel token has fired, when the answer may be a refusal.
C36_DecisionOnceWhileWaiting ==
  [][/\ (FirstAcceptCall /\ AcceptRxHeld(rcv))
          => rcv'.accept # "pending" /\ rcv'.accept_result = "Ok"
     /\ (FirstAcceptCall /\ ~AcceptRxHeld(rcv))
          => rcv'.accept = rcv.accept /\ rcv'.accept_result = "channel closed"
     /\ ~rcv.accept_tx
          => /\ rcv'.accept = rcv.accept
             /\ rcv'.accept_result \in {rcv.accept_result, "no pending accept"}
     /\ (LeavesAcceptWait /\ rcv.accept # "pending")
          => \/ rcv'.log = Append(rcv.log, AnswerFor(rcv.accept))
             \/ rcv.cancel /\ rcv'.log = Append(rcv.log, FileDecline)]_vars

\* The decision was delivered and a second call turned away while the
\* pipeline was still waiting for the offer.
C36_Witness ==
  /\ rcv.pc = "wait_offer"
  /\ rcv.accept = "yes"
  /\ ~rcv.accept_tx
  /\ rcv.accept_result = "no pending accept"

\* ------------------------------------------- C37: the direct transport's peer

\* C37: a side that committed to the Direct transport did so over a QUIC
\* connection whose peer certificate has the fingerprint it received in the
\* encrypted cert_fingerprint exchange.
C37_DirectPeerIsPinned ==
  \A x \in Sides :
    Endpoint(x).transport = "Direct" =>
      /\ Endpoint(x).peer_fingerprint # "none"
      /\ Endpoint(x).quic_peer = Endpoint(x).peer_fingerprint

\* --------------------------------------------- C38: one target path per file

\* C38: the reassemblers of an accepted offer are on pairwise distinct target
\* paths, so no two of them are ever open on the same file.
C38_DistinctTargetPaths ==
  \A i, j \in 1..Len(rcv.reassemblers) :
    i # j => rcv.reassemblers[i].path # rcv.reassemblers[j].path

\* ------------------------------------- C40: cancel and the files already done

\* file_verified for the offer's entry i was sent.
VerifiedSent(i) ==
  \E k \in 1..Len(rcv.log) : rcv.log[k] = FileVerified(i - 1)

\* C40: when the receiver returns through the cancel branch of its loop,
\* every target file for which file_verified was already sent is left on
\* disk with its content unchanged.
C40_CancelKeepsVerifiedFiles ==
  [][(rcv.pc = "loop" /\ rcv'.exit = "cancel")
       => \A i \in 1..Len(rcv.reassemblers) :
            VerifiedSent(i)
              => /\ disk'[rcv.reassemblers[i].path].exists
                 /\ disk'[rcv.reassemblers[i].path] = disk[rcv.reassemblers[i].path]]_vars

\* ------------------------------------------------ C39: no mutual waiting

\* The session of two honest peers whose users never cancel and whose
\* receiving user accepts: the pipelines without their cancel branches.
HonestSend ==
  \/ SenderQuicAccepted \/ SenderQuicAcceptFailed \/ SenderQuicTimeout
  \/ SenderRelayRequested
  \/ \E what \in SignalingSurprises : SenderSignalingSurprise(what)
  \/ SenderSendOffer \/ SenderReadsAnswer
  \/ SenderSendsChunk \/ SenderSendsComplete
  \/ SenderReadsVerified \/ SenderTransportFails

HonestReceive ==
  \/ \E peer_info \in PeerInfos : ReceiverDial(peer_info) \/ ReceiverNoAddress(peer_info)
  \/ ReceiverQuicConnected \/ ReceiverQuicFailed \/ ReceiverQuicTimeout
  \/ ReceiverAcceptBi \/ ReceiverAcceptBiFailed
  \/ ReceiverReadsOffer \/ ReceiverGetsDecision
  \/ ReceiverLoopMessage \/ ReceiverTransportFails

NextHonest == Network \/ HonestSend \/ HonestReceive \/ AcceptTransfer(TRUE)

\* The network and both pipelines take their steps; the user answers when
\* they like, or never.
SpecHonest ==
  /\ Init /\ [][NextHonest]_vars
  /\ WF_vars(Network)
  /\ WF_vars(HonestSend)
  /\ WF_vars(HonestReceive)

\* Both pipelines have returned.
BothReturned == snd.pc = "done" /\ rcv.pc = "done"

\* The receive pipeline waits for the user's answer to the offer.
AwaitsUser == rcv.pc = "wait_accept" /\ rcv.accept = "pending"

C39_WitnessRelayed ==
  /\ BothReturned
  /\ snd.transport = "Relayed" /\ rcv.transport = "Relayed"
  /\ snd.result = "Ok" /\ rcv.result = "Ok"

=============================================================================
